---- MODULE Spec2Model ----
(***************************************************************************)
(* A model of the AT-command protocol engine of src/wiolte.py (LTEModule): *)
(* the CR/LF line framer, the URC filter, the command executor, the        *)
(* connection-id pool, the power-on handshake and the socket operations.  *)
(*                                                                         *)
(* Bytes are modelled as one-character strings; CR, LF and NUL are the     *)
(* tokens "CR", "LF" and "NUL".  A bytearray is the sequence of its bytes  *)
(* up to the last one written; every byte past it is NUL (a bytearray is   *)
(* created zero-filled) and its length is carried beside it.               *)
(***************************************************************************)
EXTENDS Integers, Sequences, FiniteSets, TLC

CR == "CR"
LF == "LF"
NUL == "NUL"
\* None where a length or a number of ticks is expected (both are >= 0)
None == 0 - 1

(* ---------------------------------------------------------------------- *)
(* Bounds of the model                                                     *)
(* ---------------------------------------------------------------------- *)
MaxCap == 3
MaxStream == 4
MaxTime == 2

(* ---------------------------------------------------------------------- *)
(* bytearray / memoryview helpers                                          *)
(* ---------------------------------------------------------------------- *)
Min(a, b) == IF a < b THEN a ELSE b

BufAt(buf, i) == IF i < Len(buf) THEN buf[i + 1] ELSE NUL

BufWrite(buf, i, c) ==
  IF i < Len(buf)
    THEN [buf EXCEPT ![i + 1] = c]
    ELSE buf \o [k \in 1..(i - Len(buf)) |-> NUL] \o <<c>>

\* mv[a:b] of a buffer of buflen bytes (Python clips a slice to the length)
BufSlice(buf, buflen, a, b) ==
  LET lo == Min(a, buflen)
      hi == Min(b, buflen)
  IN  IF hi <= lo THEN <<>> ELSE [k \in 1..(hi - lo) |-> BufAt(buf, lo + k - 1)]

(* ---------------------------------------------------------------------- *)
(* Line framer: one iteration of the loop of __read_response_into for a    *)
(* byte c >= 0.  st = [state, response_length, buf, ret, err].             *)
(* ---------------------------------------------------------------------- *)
FramerInit(buf) ==
  [state |-> 0, response_length |-> 0, buf |-> buf, ret |-> None, err |-> FALSE]

\* faulty variant: the buffer counts as full one byte early
FramerStepFullEarly(st, c, buffer_length, offset) ==
  IF st.state = 0 /\ c = CR THEN [st EXCEPT !.state = 1]
  ELSE IF st.state = 1 /\ c = LF THEN [st EXCEPT !.state = 2]
  ELSE IF st.state = 1 /\ c = CR THEN [st EXCEPT !.state = 1]
  ELSE IF st.state = 1 /\ c # LF THEN [st EXCEPT !.response_length = 0, !.state = 0]
  ELSE IF st.state = 2 /\ c = CR
    THEN IF st.response_length = 0
           THEN [st EXCEPT !.state = 1]
           ELSE [st EXCEPT !.state = 4]
  ELSE IF st.state = 2 /\ c # CR
    THEN IF offset + st.response_length >= buffer_length
           THEN [st EXCEPT !.err = TRUE]
           ELSE [st EXCEPT !.buf = BufWrite(st.buf, offset + st.response_length, c),
                           !.response_length = st.response_length + 1,
                           !.state = IF offset + st.response_length + 1 = buffer_length - 1
                                       THEN 3 ELSE 2]
  ELSE IF st.state = 3 /\ c = CR THEN [st EXCEPT !.state = 4]
  ELSE IF st.state = 4 /\ c = LF THEN [st EXCEPT !.ret = st.response_length]
  ELSE st

FramerStep(st, c, buffer_length, offset) ==
  IF st.state = 0 /\ c = CR THEN [st EXCEPT !.state = 1]
  ELSE IF st.state = 1 /\ c = LF THEN [st EXCEPT !.state = 2]
  ELSE IF st.state = 1 /\ c = CR THEN [st EXCEPT !.state = 1]
  ELSE IF st.state = 1 /\ c # LF THEN [st EXCEPT !.response_length = 0, !.state = 0]
  ELSE IF st.state = 2 /\ c = CR
    THEN IF st.response_length = 0
           THEN [st EXCEPT !.state = 1]
           ELSE [st EXCEPT !.state = 4]
  ELSE IF st.state = 2 /\ c # CR
    THEN IF offset + st.response_length >= buffer_length
           THEN [st EXCEPT !.err = TRUE]   \* IndexError of buffer[...] = c
           ELSE [st EXCEPT !.buf = BufWrite(st.buf, offset + st.response_length, c),
                           !.response_length = st.response_length + 1,
                           !.state = IF offset + st.response_length + 1 = buffer_length
                                       THEN 3 ELSE 2]
  ELSE IF st.state = 3 /\ c = CR THEN [st EXCEPT !.state = 4]
  ELSE IF st.state = 4 /\ c = LF THEN [st EXCEPT !.ret = st.response_length]
  ELSE st

(* ---------------------------------------------------------------------- *)
(* Protocol constants and the byte strings of the AT dialect               *)
(* ---------------------------------------------------------------------- *)
MAX_CONNECT_ID == 12
MAX_SOCKET_DATA_SIZE == 1460
\* bytearray(1024) of wait_response (max_response_size) and of the callers of
\* execute_command
BufferSize == 1024
\* max_trials of wait_busy
WaitBusyTrials == 50

S_OK == <<"O", "K">>
S_ERROR == <<"E", "R", "R", "O", "R">>
S_RDY == <<"R", "D", "Y">>
S_QIURC == <<"+", "Q", "I", "U", "R", "C", ":", " ">>
S_CLOSED == <<"\"", "c", "l", "o", "s", "e", "d", "\"">>
S_QISTATE == <<"+", "Q", "I", "S", "T", "A", "T", "E", ":", " ">>
S_QIOPEN == <<"+", "Q", "I", "O", "P", "E", "N", ":", " ">>
S_QIRD == <<"+", "Q", "I", "R", "D", ":", " ">>
S_SEND_OK == <<"S", "E", "N", "D", " ", "O", "K">>
S_SEND_FAIL == <<"S", "E", "N", "D", " ", "F", "A", "I", "L">>
S_PROMPT == <<">", " ">>
S_CPIN_READY == <<"+", "C", "P", "I", "N", ":", " ", "R", "E", "A", "D", "Y">>
S_CME_ERROR == <<"+", "C", "M", "E", " ", "E", "R", "R", "O", "R", ":", " ", "1", "0">>
S_TCP == <<"T", "C", "P">>
S_UDP == <<"U", "D", "P">>
AT == <<"A", "T">>
ATE0 == <<"A", "T", "E", "0">>
AT_QURCCFG == <<"A", "T", "+", "Q", "U", "R", "C", "C", "F", "G", "=", "\"", "u", "r", "c", "p", "o", "r", "t", "\"", ",", "\"", "u", "a", "r", "t", "1", "\"">>
AT_QSCLK == <<"A", "T", "+", "Q", "S", "C", "L", "K", "=", "1">>
AT_CPIN == <<"A", "T", "+", "C", "P", "I", "N", "?">>
AT_QISTATE == <<"A", "T", "+", "Q", "I", "S", "T", "A", "T", "E", "?">>
AT_QIOPEN == <<"A", "T", "+", "Q", "I", "O", "P", "E", "N", "=", "1", ",">>
AT_QISEND == <<"A", "T", "+", "Q", "I", "S", "E", "N", "D", "=">>
AT_QIRD == <<"A", "T", "+", "Q", "I", "R", "D", "=">>
AT_QICLOSE == <<"A", "T", "+", "Q", "I", "C", "L", "O", "S", "E", "=">>
S_CGREG == <<"+", "C", "G", "R", "E", "G", ":">>
S_CEREG == <<"+", "C", "E", "R", "E", "G", ":">>
AT_CGREG == <<"A", "T", "+", "C", "G", "R", "E", "G", "?">>
AT_CEREG == <<"A", "T", "+", "C", "E", "R", "E", "G", "?">>
AT_QICSGP == <<"A", "T", "+", "Q", "I", "C", "S", "G", "P", "=", "1", ",", "1", ",">>
AT_QIACT == <<"A", "T", "+", "Q", "I", "A", "C", "T", "=", "1">>
AT_QIACT_Q == <<"A", "T", "+", "Q", "I", "A", "C", "T", "?">>

DigitChars == <<"0", "1", "2", "3", "4", "5", "6", "7", "8", "9">>

IsDigit(c) == \E d \in 1..10 : DigitChars[d] = c

DigitValue(c) == (CHOOSE d \in 1..10 : DigitChars[d] = c) - 1

\* '{0}'.format(n) for an int n >= 0
RECURSIVE Str(_)
Str(n) == IF n < 10 THEN <<DigitChars[n + 1]>>
          ELSE Append(Str(n \div 10), DigitChars[(n % 10) + 1])

\* int(s) for a string of decimal digits; None stands for ValueError
RECURSIVE ParseDigits(_, _)
ParseDigits(s, acc) ==
  IF s = <<>> THEN acc
  ELSE ParseDigits(Tail(s), acc * 10 + DigitValue(Head(s)))

ParseInt(s) ==
  IF s # <<>> /\ \A i \in 1..Len(s) : IsDigit(s[i]) THEN ParseDigits(s, 0) ELSE None

\* s.split(sep): the field before the first sep, and the rest after it
IndexOf(s, c) ==
  IF \E i \in 1..Len(s) : s[i] = c
    THEN CHOOSE i \in 1..Len(s) : s[i] = c /\ \A j \in 1..(i - 1) : s[j] # c
    ELSE 0

FirstField(s, c) == IF IndexOf(s, c) = 0 THEN s ELSE SubSeq(s, 1, IndexOf(s, c) - 1)

AfterFirst(s, c) == IF IndexOf(s, c) = 0 THEN <<>> ELSE SubSeq(s, IndexOf(s, c) + 1, Len(s))

StartsWith(s, prefix) ==
  Len(s) >= Len(prefix) /\ SubSeq(s, 1, Len(prefix)) = prefix

(* ---------------------------------------------------------------------- *)
(* __read_response_into on the bytes that are in the receive FIFO: the     *)
(* loop runs without suspending while readchar() returns a byte.          *)
(* r = [st |-> framer locals, rx |-> bytes left in the FIFO]               *)
(* ---------------------------------------------------------------------- *)
RECURSIVE RunFramer(_, _, _, _)
RunFramer(st, rxq, buffer_length, offset) ==
  IF rxq = <<>> \/ st.ret # None \/ st.err
    THEN [st |-> st, rx |-> rxq]
    ELSE RunFramer(FramerStep(st, Head(rxq), buffer_length, offset), Tail(rxq),
                   buffer_length, offset)

(* ---------------------------------------------------------------------- *)
(* The URC test of read_response_into on the line of `length` bytes just   *)
(* framed into the buffer: "closed" with the connect id, "line" when the   *)
(* length is returned to the caller, "ValueError" when int() raises.       *)
(* ---------------------------------------------------------------------- *)
UrcFilter(buf, buflen, offset, length) ==
  IF length >= 8 /\ BufSlice(buf, buflen, 0, 8) = S_QIURC
       /\ length > 17 /\ BufSlice(buf, buflen, 8, 16) = S_CLOSED
    THEN LET id == ParseInt(BufSlice(buf, buflen, 17, length))
         IN  IF id = None THEN [kind |-> "ValueError", id |-> None]
                          ELSE [kind |-> "closed", id |-> id]
    ELSE [kind |-> "line", id |-> None]

(* ---------------------------------------------------------------------- *)
(* State of one framer call against a timed byte stream                    *)
(* ---------------------------------------------------------------------- *)
VARIABLES
  f_stream,    \* the bytes the device sends during the call (fixed by Init)
  f_script,    \* the bytes of f_stream that have not arrived yet
  f_rx,        \* UART receive FIFO: <<byte, arrived at or after the deadline>>
  f_now,       \* time.ticks_ms()
  f_st,        \* locals of __read_response_into (see FramerInit)
  f_pc,        \* "run" | "sleep" | "ret"
  f_res,       \* return value: None or a length
  f_cap,       \* len(buffer)
  f_off,       \* offset
  f_timeout,   \* timeout: None or a number of ticks
  f_start,     \* start_time_ms
  f_last       \* TRUE when the last byte read arrived at or after the deadline

fvars == <<f_stream, f_script, f_rx, f_now, f_st, f_pc, f_res, f_cap, f_off,
           f_timeout, f_start, f_last>>

(* ---------------------------------------------------------------------- *)
(* State of the protocol engine (LTEModule), of the UART and of the modem  *)
(* ---------------------------------------------------------------------- *)
VARIABLES
  connections, \* self.__connections: list of connect ids
  urcs,        \* self.__urcs: UrcsNone or a list of <<"closed", connect id>>
  pc,          \* where the running coroutine is suspended; "idle": none runs
  op,          \* the public operation that runs, with its arguments
  wt,          \* locals of the wait primitive the coroutine is suspended in
  loc,         \* locals of the public operation
  rx,          \* UART receive FIFO (bytes the modem has sent)
  tx,          \* UART writes the modem has not taken yet
  wlog,        \* history: the writes of the running operation, in order
  consumed,    \* history: the lines read_response_into returned during the running
               \* operation, one list per write (the first: before any write)
  last,        \* history: the operation that has just finished: its result,
               \* its writes, the lines it read, and connections, urcs and
               \* seen as they were when it was called
  prevclosed,  \* history: the id the previous operation closed (socket_close
               \* returned True), or None
  seen,        \* history: open ids whose "closed" line has been framed
  nops,        \* number of operations started
  dev,         \* the modem: live connect ids, lines to send, mode
  other,       \* a second task's coroutine, suspended: its position, locals
               \* and history
  ncancel      \* number of cancellations delivered

evars == <<connections, urcs, pc, op, wt, loc, rx, tx, wlog, consumed,
           last, prevclosed, seen, nops, dev>>

(* ---------------------------------------------------------------------- *)
(* State of the network driver (WioLteDriver of src/unetwork.py)           *)
(* ---------------------------------------------------------------------- *)
VARIABLES
  active,        \* self.__active
  is_connected,  \* self.__is_connected
  d_pc,          \* "idle", or the call that is inside run_until_complete:
                 \* "active" | "connect"
  d_res          \* history: how the last call of the driver ended

nvars == <<active, is_connected, d_pc, d_res>>

tvars == <<other, ncancel, nvars>>

vars == <<fvars, evars, tvars>>

\* WioLteDriver.__init__
DriverIdle ==
  /\ active = FALSE /\ is_connected = FALSE /\ d_pc = "idle" /\ d_res = "none"

\* self.__urcs = None
UrcsNone == << <<"None", 0>> >>

\* a timeout in ms that is not None (socket_open's default)
TimeoutMs == 30000

NoOp == [name |-> "none", id |-> 0, timeout |-> None, stype |-> 0, length |-> 0]

NoWait == [prim |-> "none", expected |-> <<>>, timeout |-> None, buf |-> <<>>,
           index |-> 0, responses |-> <<>>, state |-> 0, response_length |-> 0]

\* what execute_command last returned to the operation: (ok, responses), with
\* the matcher it was given and the write it followed
NoExec == [ok |-> FALSE, responses |-> <<>>, expected |-> <<>>, seg |-> 0]

\* trial .. actual_length are locals of the operation; the other fields are
\* history: the last return of execute_command, the waits that ended on their
\* timeout, the waits in which the task was cancelled, whether uart.readinto
\* read fewer bytes than announced, and connections, urcs and seen at the call
NoLoc == [trial |-> 0, urc_i |-> 0, connect_id |-> 0, actual_length |-> 0,
          exec |-> NoExec, timedout |-> {}, cancelled |-> {}, short |-> FALSE,
          before |-> <<>>, urcs |-> <<>>, seen |-> {}]

NoResult == [op |-> NoOp, kind |-> "none", val |-> 0, exc |-> "", wlog |-> <<>>,
             before |-> <<>>, after |-> <<>>, consumed |-> <<>>, prevclosed |-> None,
             urcs |-> <<>>, seen |-> {}, exec |-> NoExec, timedout |-> {},
             cancelled |-> {}, short |-> FALSE, prefix |-> <<>>, line |-> <<>>]

\* a task that is not inside an operation
NoTask == [pc |-> "idle", op |-> NoOp, wt |-> NoWait, loc |-> NoLoc, wlog |-> <<>>,
           consumed |-> << <<>> >>]

\* the engine's state as one record, for the handlers below
Host ==
  [connections |-> connections, urcs |-> urcs, pc |-> pc, op |-> op, wt |-> wt,
   loc |-> loc, rx |-> rx, tx |-> tx, wlog |-> wlog, consumed |-> consumed,
   last |-> last, prevclosed |-> prevclosed, seen |-> seen]

Apply(h) ==
  /\ connections' = h.connections
  /\ urcs' = h.urcs
  /\ pc' = h.pc
  /\ op' = h.op
  /\ wt' = h.wt
  /\ loc' = h.loc
  /\ rx' = h.rx
  /\ tx' = h.tx
  /\ wlog' = h.wlog
  /\ consumed' = h.consumed
  /\ last' = h.last
  /\ prevclosed' = h.prevclosed
  /\ seen' = h.seen

(* ---------------------------------------------------------------------- *)
(* How a coroutine ends                                                    *)
(* ---------------------------------------------------------------------- *)
Finish(h, kind, val, exc) ==
  [h EXCEPT !.pc = "idle",
            !.last = [op |-> h.op, kind |-> kind, val |-> val, exc |-> exc,
                      wlog |-> h.wlog, before |-> h.loc.before,
                      after |-> h.connections, consumed |-> h.consumed,
                      prevclosed |-> h.prevclosed,
                      urcs |-> h.loc.urcs, seen |-> h.loc.seen,
                      exec |-> h.loc.exec, timedout |-> h.loc.timedout,
                      cancelled |-> h.loc.cancelled, short |-> h.loc.short,
                      prefix |-> <<>>, line |-> <<>>],
            !.op = NoOp, !.wt = NoWait, !.loc = NoLoc]

ReturnBool(h, b) == Finish(h, "bool", IF b THEN 1 ELSE 0, "")
ReturnNone(h) == Finish(h, "None", 0, "")
ReturnInt(h, n) == Finish(h, "int", n, "")
Raise(h, exc) == Finish(h, "raise", 0, exc)

(* ---------------------------------------------------------------------- *)
(* Writes and the start of the wait primitives                             *)
(* ---------------------------------------------------------------------- *)
uart_write(h, bytes) ==
  [h EXCEPT !.tx = Append(@, bytes), !.wlog = Append(@, bytes),
            !.consumed = Append(@, <<>>)]

write_command(h, command) == uart_write(h, Append(command, CR))

wait_response(h, expected_response, timeout) ==
  [h EXCEPT !.wt = [NoWait EXCEPT !.prim = "wait_response",
                                  !.expected = <<expected_response>>,
                                  !.timeout = timeout]]

write_command_wait(h, command, expected_response, timeout) ==
  wait_response(write_command(h, command), expected_response, timeout)

execute_command(h, command, response_buffer, expected_response_list, timeout) ==
  [write_command(h, command) EXCEPT
     !.wt = [NoWait EXCEPT !.prim = "execute_command",
                           !.expected = expected_response_list,
                           !.timeout = timeout,
                           !.buf = response_buffer]]

wait_prompt(h, expected_prompt, timeout) ==
  [h EXCEPT !.wt = [NoWait EXCEPT !.prim = "wait_prompt",
                                  !.expected = <<expected_prompt>>,
                                  !.timeout = timeout]]

\* the bytes of a response of execute_command (a memoryview into the buffer)
ResponseBytes(buf, r) == BufSlice(buf, BufferSize, r[1], r[1] + r[2])

socket_is_connected(conns, urcq, connect_id) ==
  /\ \E i \in 1..Len(conns) : conns[i] = connect_id
  /\ ~ \E i \in 1..Len(urcq) : urcq[i] = <<"closed", connect_id>>

InList(conns, connect_id) == \E i \in 1..Len(conns) : conns[i] = connect_id

\* faulty variant: the id stays in the list
ListRemoveNothing(conns, x) == conns

\* list.remove(x): drops the first occurrence
ListRemove(conns, x) ==
  LET i == CHOOSE k \in 1..Len(conns) : conns[k] = x /\ \A j \in 1..(k - 1) : conns[j] # x
  IN  SubSeq(conns, 1, i - 1) \o SubSeq(conns, i + 1, Len(conns))

(* ---------------------------------------------------------------------- *)
(* Commands                                                                *)
(* ---------------------------------------------------------------------- *)
SOCKET_TCP == 0
SOCKET_UDP == 1

\* the host and the port the model's callers connect to
HostArg == <<"h">>
PortArg == 1883

socket_type_name(socket_type) == IF socket_type = SOCKET_TCP THEN S_TCP ELSE S_UDP

\* faulty variant: port and host change places
QIOPEN_CommandPortFirst(connect_id, socket_type, host, port) ==
  AT_QIOPEN \o Str(connect_id) \o <<",", "\"">> \o socket_type_name(socket_type)
    \o <<"\"", ",">> \o Str(port) \o <<",", "\"">> \o host \o <<"\"">>
    \o <<",", "0", ",", "0">>

QIOPEN_Command(connect_id, socket_type, host, port) ==
  AT_QIOPEN \o Str(connect_id) \o <<",", "\"">> \o socket_type_name(socket_type)
    \o <<"\"", ",", "\"">> \o host \o <<"\"", ",">> \o Str(port)
    \o <<",", "0", ",", "0">>

QISEND_Command(connect_id, length) ==
  AT_QISEND \o Str(connect_id) \o <<",">> \o Str(length)

QIRD_Command(connect_id, length) ==
  AT_QIRD \o Str(connect_id) \o <<",">> \o Str(length)

QICLOSE_Command(connect_id) == AT_QICLOSE \o Str(connect_id)

QIOPEN_Ack(connect_id) == S_QIOPEN \o Str(connect_id) \o <<",">>

\* the access point, the user and the password the model's callers pass
AccessPointArg == <<"a">>
UserArg == <<"u">>
PasswordArg == <<"p">>

QICSGP_Command(access_point, user, password) ==
  AT_QICSGP \o <<"\"">> \o access_point \o <<"\"", ",", "\"">> \o user
    \o <<"\"", ",", "\"">> \o password \o <<"\"", ",", "1">>

\* the payload of a send of `length` bytes
Payload(length) == [k \in 1..length |-> "d"]

(* ---------------------------------------------------------------------- *)
(* socket_open: the ids named in the +QISTATE: lines of the responses      *)
(* ---------------------------------------------------------------------- *)
StateLines(buf, responses) ==
  {i \in 1..Len(responses) :
     LET response == ResponseBytes(buf, responses[i])
     IN  ~(Len(response) < 10 \/ SubSeq(response, 1, 10) # S_QISTATE)}

StateLineId(buf, r) ==
  ParseInt(FirstField(SubSeq(ResponseBytes(buf, r), 11, r[2]), ","))

connect_id_in_use(buf, responses) ==
  {StateLineId(buf, responses[i]) : i \in StateLines(buf, responses)}

\* faulty variant: only the listing is consulted
NewConnectIdIgnoringLocal(in_use, conns) ==
  IF \E c \in 0..(MAX_CONNECT_ID - 1) : c \notin in_use
    THEN CHOOSE c \in 0..(MAX_CONNECT_ID - 1) :
           /\ c \notin in_use
           /\ \A d \in 0..(c - 1) : d \in in_use
    ELSE None

\* faulty variant: id 0 is reused when every id is taken
NewConnectIdWrapping(in_use, conns) ==
  IF \E c \in 0..(MAX_CONNECT_ID - 1) : c \notin in_use /\ ~InList(conns, c)
    THEN CHOOSE c \in 0..(MAX_CONNECT_ID - 1) :
           /\ c \notin in_use /\ ~InList(conns, c)
           /\ \A d \in 0..(c - 1) : d \in in_use \/ InList(conns, d)
    ELSE 0

\* None when every id is taken
NewConnectId(in_use, conns) ==
  IF \E c \in 0..(MAX_CONNECT_ID - 1) : c \notin in_use /\ ~InList(conns, c)
    THEN CHOOSE c \in 0..(MAX_CONNECT_ID - 1) :
           /\ c \notin in_use /\ ~InList(conns, c)
           /\ \A d \in 0..(c - 1) : d \in in_use \/ InList(conns, d)
    ELSE None

(* ---------------------------------------------------------------------- *)
(* The bodies of socket_send and socket_receive after the URC drain        *)
(* ---------------------------------------------------------------------- *)
\* faulty variant: the length is not checked against MAX_SOCKET_DATA_SIZE
socket_send_body_any_length(h) ==
  IF ~InList(h.connections, h.op.id) THEN ReturnBool(h, FALSE)
  ELSE IF h.op.length = 0 THEN ReturnBool(h, TRUE)
  ELSE [wait_prompt(write_command(h, QISEND_Command(h.op.id, h.op.length)),
                    S_PROMPT, h.op.timeout)
          EXCEPT !.pc = "send_prompt"]

socket_send_body(h) ==
  IF ~InList(h.connections, h.op.id) THEN ReturnBool(h, FALSE)
  ELSE IF h.op.length = 0 THEN ReturnBool(h, TRUE)
  ELSE IF ~(h.op.length <= MAX_SOCKET_DATA_SIZE) THEN Raise(h, "AssertionError")
  ELSE [wait_prompt(write_command(h, QISEND_Command(h.op.id, h.op.length)),
                    S_PROMPT, h.op.timeout)
          EXCEPT !.pc = "send_prompt"]

socket_receive_body(h) ==
  IF ~InList(h.connections, h.op.id) THEN ReturnBool(h, FALSE)
  ELSE IF h.op.length = 0 THEN ReturnBool(h, TRUE)
  ELSE IF ~(h.op.length <= MAX_SOCKET_DATA_SIZE) THEN Raise(h, "AssertionError")
  ELSE [wait_response(write_command(h, QIRD_Command(h.op.id, h.op.length)),
                      S_QIRD, h.op.timeout)
          EXCEPT !.pc = "recv_qird"]

socket_open_body(h) ==
  [execute_command(h, AT_QISTATE, <<>>, <<S_OK>>, h.op.timeout)
     EXCEPT !.pc = "open_state"]

AfterDrain(h) ==
  IF h.op.name = "socket_open" THEN socket_open_body(h)
  ELSE IF h.op.name = "socket_send" THEN socket_send_body(h)
  ELSE socket_receive_body(h)

(* ---------------------------------------------------------------------- *)
(* __process_remaining_urcs from the i-th queued URC on: socket_close of   *)
(* each closed id (suspends on the first id that is locally open), then    *)
(* urcs.clear() and the rest of the operation.                             *)
(* ---------------------------------------------------------------------- *)
\* faulty variant: only the events that were queued at the call are handled
RECURSIVE process_remaining_urcs_snapshot(_, _)
process_remaining_urcs_snapshot(h, i) ==
  IF h.urcs = UrcsNone THEN Raise(h, "TypeError")
  ELSE IF i > Len(h.loc.urcs) THEN AfterDrain([h EXCEPT !.urcs = <<>>])
  ELSE LET connect_id == h.urcs[i][2]
       IN  IF ~(0 <= connect_id /\ connect_id <= MAX_CONNECT_ID)
             THEN Raise(h, "AssertionError")
           ELSE IF ~InList(h.connections, connect_id)
             THEN process_remaining_urcs_snapshot(h, i + 1)
           ELSE [write_command_wait(h, QICLOSE_Command(connect_id), S_OK, h.op.timeout)
                   EXCEPT !.pc = "drain", !.loc.urc_i = i,
                          !.loc.connect_id = connect_id]

RECURSIVE process_remaining_urcs(_, _)
process_remaining_urcs(h, i) ==
  IF h.urcs = UrcsNone THEN Raise(h, "TypeError")
  ELSE IF i > Len(h.urcs) THEN AfterDrain([h EXCEPT !.urcs = <<>>])
  ELSE LET connect_id == h.urcs[i][2]
       IN  IF ~(0 <= connect_id /\ connect_id <= MAX_CONNECT_ID)
             THEN Raise(h, "AssertionError")
           ELSE IF ~InList(h.connections, connect_id)
             THEN process_remaining_urcs(h, i + 1)
           ELSE [write_command_wait(h, QICLOSE_Command(connect_id), S_OK, h.op.timeout)
                   EXCEPT !.pc = "drain", !.loc.urc_i = i,
                          !.loc.connect_id = connect_id]

(* ---------------------------------------------------------------------- *)
(* Resumption of the operation when its wait primitive returns.            *)
(* out = [ok |-> FALSE when the primitive returned None / False,           *)
(*        line |-> the line wait_response returned,                        *)
(*        responses |-> the list execute_command returned]                 *)
(* ---------------------------------------------------------------------- *)
\* faulty variant: AT+QURCCFG is left out of the handshake
turn_on_or_reset_resume_no_urcport(h, out) ==
  IF h.pc = "wait_rdy"
    THEN IF out.ok
           THEN [write_command_wait(h, AT, S_OK, None) EXCEPT !.pc = "hs_at"]
         ELSE IF h.loc.trial + 1 < 15
           THEN [wait_response(h, S_RDY, None) EXCEPT !.loc.trial = h.loc.trial + 1]
         ELSE ReturnBool(h, FALSE)
  ELSE IF h.pc = "hs_at"
    THEN IF ~out.ok THEN ReturnBool(h, FALSE)
         ELSE [write_command_wait(h, ATE0, S_OK, None) EXCEPT !.pc = "hs_ate0"]
  ELSE IF h.pc = "hs_ate0"
    THEN IF ~out.ok THEN ReturnBool(h, FALSE)
         ELSE [execute_command(h, AT_QSCLK, <<>>, <<S_OK, S_ERROR>>, None)
                 EXCEPT !.pc = "hs_qsclk"]
  ELSE IF h.pc = "hs_urccfg"
    THEN IF ~out.ok THEN ReturnBool(h, FALSE)
         ELSE [execute_command(h, AT_QSCLK, <<>>, <<S_OK, S_ERROR>>, None)
                 EXCEPT !.pc = "hs_qsclk"]
  ELSE IF h.pc = "hs_qsclk"
    THEN IF ~out.ok THEN ReturnBool(h, FALSE)
         ELSE [execute_command(h, AT_CPIN, h.wt.buf, <<S_OK>>, 1000)
                 EXCEPT !.pc = "hs_cpin"]
  ELSE \* "hs_cpin"
    IF Len(out.responses) = 0 THEN ReturnBool(h, FALSE)
    ELSE IF out.ok THEN ReturnBool(h, TRUE)
    ELSE [execute_command(h, AT_CPIN, h.wt.buf, <<S_OK>>, 1000) EXCEPT !.pc = "hs_cpin"]

\* faulty variant: the SIM poll gives up when an attempt does not end with OK
turn_on_or_reset_resume_single_poll(h, out) ==
  IF h.pc = "wait_rdy"
    THEN IF out.ok
           THEN [write_command_wait(h, AT, S_OK, None) EXCEPT !.pc = "hs_at"]
         ELSE IF h.loc.trial + 1 < 15
           THEN [wait_response(h, S_RDY, None) EXCEPT !.loc.trial = h.loc.trial + 1]
         ELSE ReturnBool(h, FALSE)
  ELSE IF h.pc = "hs_at"
    THEN IF ~out.ok THEN ReturnBool(h, FALSE)
         ELSE [write_command_wait(h, ATE0, S_OK, None) EXCEPT !.pc = "hs_ate0"]
  ELSE IF h.pc = "hs_ate0"
    THEN IF ~out.ok THEN ReturnBool(h, FALSE)
         ELSE [write_command_wait(h, AT_QURCCFG, S_OK, None) EXCEPT !.pc = "hs_urccfg"]
  ELSE IF h.pc = "hs_urccfg"
    THEN IF ~out.ok THEN ReturnBool(h, FALSE)
         ELSE [execute_command(h, AT_QSCLK, <<>>, <<S_OK, S_ERROR>>, None)
                 EXCEPT !.pc = "hs_qsclk"]
  ELSE IF h.pc = "hs_qsclk"
    THEN IF ~out.ok THEN ReturnBool(h, FALSE)
         ELSE [execute_command(h, AT_CPIN, h.wt.buf, <<S_OK>>, 1000)
                 EXCEPT !.pc = "hs_cpin"]
  ELSE \* "hs_cpin"
    ReturnBool(h, out.ok)

turn_on_or_reset_resume(h, out) ==
  IF h.pc = "wait_rdy"
    THEN IF out.ok
           THEN [write_command_wait(h, AT, S_OK, None) EXCEPT !.pc = "hs_at"]
         ELSE IF h.loc.trial + 1 < 15
           THEN [wait_response(h, S_RDY, None) EXCEPT !.loc.trial = h.loc.trial + 1]
         ELSE ReturnBool(h, FALSE)
  ELSE IF h.pc = "hs_at"
    THEN IF ~out.ok THEN ReturnBool(h, FALSE)
         ELSE [write_command_wait(h, ATE0, S_OK, None) EXCEPT !.pc = "hs_ate0"]
  ELSE IF h.pc = "hs_ate0"
    THEN IF ~out.ok THEN ReturnBool(h, FALSE)
         ELSE [write_command_wait(h, AT_QURCCFG, S_OK, None) EXCEPT !.pc = "hs_urccfg"]
  ELSE IF h.pc = "hs_urccfg"
    THEN IF ~out.ok THEN ReturnBool(h, FALSE)
         ELSE [execute_command(h, AT_QSCLK, <<>>, <<S_OK, S_ERROR>>, None)
                 EXCEPT !.pc = "hs_qsclk"]
  ELSE IF h.pc = "hs_qsclk"
    THEN IF ~out.ok THEN ReturnBool(h, FALSE)
         ELSE [execute_command(h, AT_CPIN, h.wt.buf, <<S_OK>>, 1000)
                 EXCEPT !.pc = "hs_cpin"]
  ELSE \* "hs_cpin"
    IF Len(out.responses) = 0 THEN ReturnBool(h, FALSE)
    ELSE IF out.ok THEN ReturnBool(h, TRUE)
    ELSE [execute_command(h, AT_CPIN, h.wt.buf, <<S_OK>>, 1000) EXCEPT !.pc = "hs_cpin"]

\* faulty variant: the id is appended before the error code is tested
socket_open_resume_append_first(h, out) ==
  IF h.pc = "open_state"
    THEN IF ~out.ok THEN Raise(h, "LTEModuleError: Failed to get socket status")
         ELSE LET in_use == connect_id_in_use(h.wt.buf, out.responses)
                  new_connect_id == NewConnectId(in_use, h.connections)
              IN  IF None \in in_use THEN Raise(h, "ValueError")
                  ELSE IF new_connect_id = None
                    THEN Raise(h, "LTEModuleError: No connection resources available.")
                  ELSE [write_command_wait(
                          h, QIOPEN_Command(new_connect_id, h.op.stype, HostArg, PortArg),
                          S_OK, h.op.timeout)
                          EXCEPT !.pc = "open_ok", !.loc.connect_id = new_connect_id]
  ELSE IF h.pc = "open_ok"
    THEN IF ~out.ok THEN Raise(h, "LTEModuleError: Failed to open socket. OK")
         ELSE [wait_response(h, QIOPEN_Ack(h.loc.connect_id), h.op.timeout)
                 EXCEPT !.pc = "open_ack"]
  ELSE \* "open_ack"
    IF ~out.ok THEN Raise(h, "LTEModuleError: Failed to open socket. QIOPEN")
    ELSE LET error == FirstField(AfterFirst(out.line, ","), ",")
         IN  IF error # <<"0">>
               THEN Raise([h EXCEPT !.connections = Append(@, h.loc.connect_id)],
                          "LTEModuleError: Failed to open socket. error")
               ELSE ReturnInt([h EXCEPT !.connections = Append(@, h.loc.connect_id),
                                        !.seen = @ \ {h.loc.connect_id}],
                              h.loc.connect_id)

\* faulty variant: the id is appended at the OK and again at the acknowledgement
socket_open_resume_append_twice(h, out) ==
  IF h.pc = "open_state"
    THEN IF ~out.ok THEN Raise(h, "LTEModuleError: Failed to get socket status")
         ELSE LET in_use == connect_id_in_use(h.wt.buf, out.responses)
                  new_connect_id == NewConnectId(in_use, h.connections)
              IN  IF None \in in_use THEN Raise(h, "ValueError")
                  ELSE IF new_connect_id = None
                    THEN Raise(h, "LTEModuleError: No connection resources available.")
                  ELSE [write_command_wait(
                          h, QIOPEN_Command(new_connect_id, h.op.stype, HostArg, PortArg),
                          S_OK, h.op.timeout)
                          EXCEPT !.pc = "open_ok", !.loc.connect_id = new_connect_id]
  ELSE IF h.pc = "open_ok"
    THEN IF ~out.ok THEN Raise(h, "LTEModuleError: Failed to open socket. OK")
         ELSE [wait_response(h, QIOPEN_Ack(h.loc.connect_id), h.op.timeout)
                 EXCEPT !.pc = "open_ack",
                        !.connections = Append(@, h.loc.connect_id)]
  ELSE \* "open_ack"
    IF ~out.ok THEN Raise(h, "LTEModuleError: Failed to open socket. QIOPEN")
    ELSE LET error == FirstField(AfterFirst(out.line, ","), ",")
         IN  IF error # <<"0">>
               THEN Raise(h, "LTEModuleError: Failed to open socket. error")
               ELSE ReturnInt([h EXCEPT !.connections = Append(@, h.loc.connect_id),
                                        !.seen = @ \ {h.loc.connect_id}],
                              h.loc.connect_id)

socket_open_resume(h, out) ==
  IF h.pc = "open_state"
    THEN IF ~out.ok THEN Raise(h, "LTEModuleError: Failed to get socket status")
         ELSE LET in_use == connect_id_in_use(h.wt.buf, out.responses)
                  new_connect_id == NewConnectId(in_use, h.connections)
              IN  IF None \in in_use THEN Raise(h, "ValueError")
                  ELSE IF new_connect_id = None
                    THEN Raise(h, "LTEModuleError: No connection resources available.")
                  ELSE [write_command_wait(
                          h, QIOPEN_Command(new_connect_id, h.op.stype, HostArg, PortArg),
                          S_OK, h.op.timeout)
                          EXCEPT !.pc = "open_ok", !.loc.connect_id = new_connect_id]
  ELSE IF h.pc = "open_ok"
    THEN IF ~out.ok THEN Raise(h, "LTEModuleError: Failed to open socket. OK")
         ELSE [wait_response(h, QIOPEN_Ack(h.loc.connect_id), h.op.timeout)
                 EXCEPT !.pc = "open_ack"]
  ELSE \* "open_ack"
    IF ~out.ok THEN Raise(h, "LTEModuleError: Failed to open socket. QIOPEN")
    ELSE LET error == FirstField(AfterFirst(out.line, ","), ",")
         IN  IF error # <<"0">>
               THEN Raise(h, "LTEModuleError: Failed to open socket. error")
               ELSE ReturnInt([h EXCEPT !.connections = Append(@, h.loc.connect_id),
                                        !.seen = @ \ {h.loc.connect_id}],
                              h.loc.connect_id)

\* faulty variant: the payload is written whether or not the prompt came
socket_send_resume_unprompted(h, out) ==
  IF h.pc = "send_prompt"
    THEN [wait_response(uart_write(h, Payload(h.op.length)), S_SEND_OK, h.op.timeout)
            EXCEPT !.pc = "send_ok"]
  ELSE ReturnBool(h, out.ok)

socket_send_resume(h, out) ==
  IF h.pc = "send_prompt"
    THEN IF ~out.ok THEN ReturnBool(h, FALSE)
         ELSE [wait_response(uart_write(h, Payload(h.op.length)), S_SEND_OK, h.op.timeout)
                 EXCEPT !.pc = "send_ok"]
  ELSE \* "send_ok"
    ReturnBool(h, out.ok)

socket_receive_resume(h, out) ==
  IF h.pc = "recv_qird"
    THEN IF ~out.ok THEN ReturnNone(h)
         ELSE LET actual_length == ParseInt(SubSeq(out.line, 8, Len(out.line)))
              IN  IF actual_length = None THEN Raise(h, "ValueError")
                  ELSE IF actual_length = 0
                    THEN [wait_response(h, S_OK, h.op.timeout) EXCEPT !.pc = "recv_ok0"]
                  ELSE [h EXCEPT !.pc = "recv_read", !.wt = NoWait,
                                 !.loc.actual_length = actual_length]
  ELSE IF h.pc = "recv_ok0"
    THEN IF out.ok THEN ReturnInt(h, 0) ELSE ReturnNone(h)
  ELSE \* "recv_ok"
    IF out.ok THEN ReturnInt(h, h.loc.actual_length) ELSE ReturnNone(h)

(* ---------------------------------------------------------------------- *)
(* activate                                                                *)
(* ---------------------------------------------------------------------- *)
\* faulty variant: the last response that has the prefix
single_response_last(result, responses, starts_with) ==
  LET hits == {i \in 1..Len(responses) :
                 \/ Len(starts_with) = 0 /\ Len(responses[i]) > 0
                 \/ Len(starts_with) > 0 /\ StartsWith(responses[i], starts_with)}
  IN  IF ~result \/ hits = {} THEN <<>>
      ELSE responses[CHOOSE i \in hits : \A j \in hits : i >= j]

\* execute_command_single_response once execute_command has returned
\* (result, responses): the first response that has the prefix (the first
\* non-empty one when there is no prefix); <<>> stands for None
single_response(result, responses, starts_with) ==
  LET hits == {i \in 1..Len(responses) :
                 \/ Len(starts_with) = 0 /\ Len(responses[i]) > 0
                 \/ Len(starts_with) > 0 /\ StartsWith(responses[i], starts_with)}
  IN  IF ~result \/ hits = {} THEN <<>>
      ELSE responses[CHOOSE i \in hits : \A j \in hits : i <= j]

\* faulty variant: a roaming registration (5) does not end the poll
registration_status_home_only(response) ==
  LET stat == FirstField(AfterFirst(response, ","), ",")
  IN  IF IndexOf(response, ",") = 0 THEN "ValueError"
      ELSE IF stat = <<"0">> \/ stat = <<"4">> THEN "invalid"
      ELSE IF stat = <<"1">> THEN "registered"
      ELSE "pending"

\* n, stat = s.split(',')[:2] and the tests of stat
registration_status(response) ==
  LET stat == FirstField(AfterFirst(response, ","), ",")
  IN  IF IndexOf(response, ",") = 0 THEN "ValueError"
      ELSE IF stat = <<"0">> \/ stat = <<"4">> THEN "invalid"
      ELSE IF stat = <<"1">> \/ stat = <<"5">> THEN "registered"
      ELSE "pending"

\* faulty variant: AT+QIACT=1 is written whether or not AT+QICSGP succeeded
activate_resume_unchecked(h, out) ==
  IF h.pc \in {"act_cgreg", "act_cereg"}
    THEN LET response ==
               single_response(out.ok,
                               [i \in 1..Len(out.responses) |->
                                  ResponseBytes(h.wt.buf, out.responses[i])],
                               IF h.pc = "act_cgreg" THEN S_CGREG ELSE S_CEREG)
             status == registration_status(response)
         IN  IF response = <<>>
               THEN Raise(h, "LTEModuleError: Failed to get registration status.")
             ELSE IF status = "ValueError" THEN Raise(h, "ValueError")
             ELSE IF status = "invalid"
               THEN Raise(h, "LTEModuleError: Invalid registration status.")
             ELSE IF status = "registered"
               THEN [write_command_wait(
                       h, QICSGP_Command(AccessPointArg, UserArg, PasswordArg),
                       S_OK, h.op.timeout)
                       EXCEPT !.pc = "act_qicsgp"]
             ELSE IF h.pc = "act_cgreg"
               THEN [execute_command(h, AT_CEREG, <<>>, <<S_OK>>, h.op.timeout)
                       EXCEPT !.pc = "act_cereg"]
             ELSE [execute_command(h, AT_CGREG, <<>>, <<S_OK>>, h.op.timeout)
                     EXCEPT !.pc = "act_cgreg"]
  ELSE IF h.pc = "act_qicsgp"
    THEN [write_command_wait(h, AT_QIACT, S_OK, h.op.timeout)
            EXCEPT !.pc = "act_qiact"]
  ELSE IF h.pc = "act_qiact"
    THEN IF ~out.ok THEN ReturnBool(h, FALSE)
         ELSE [write_command_wait(h, AT_QIACT_Q, S_OK, h.op.timeout)
                 EXCEPT !.pc = "act_qiact_q"]
  ELSE ReturnBool(h, out.ok)

activate_resume(h, out) ==
  IF h.pc \in {"act_cgreg", "act_cereg"}
    THEN LET response ==
               single_response(out.ok,
                               [i \in 1..Len(out.responses) |->
                                  ResponseBytes(h.wt.buf, out.responses[i])],
                               IF h.pc = "act_cgreg" THEN S_CGREG ELSE S_CEREG)
             status == registration_status(response)
         IN  IF response = <<>>
               THEN Raise(h, "LTEModuleError: Failed to get registration status.")
             ELSE IF status = "ValueError" THEN Raise(h, "ValueError")
             ELSE IF status = "invalid"
               THEN Raise(h, "LTEModuleError: Invalid registration status.")
             ELSE IF status = "registered"
               THEN [write_command_wait(
                       h, QICSGP_Command(AccessPointArg, UserArg, PasswordArg),
                       S_OK, h.op.timeout)
                       EXCEPT !.pc = "act_qicsgp"]
             ELSE IF h.pc = "act_cgreg"
               THEN [execute_command(h, AT_CEREG, <<>>, <<S_OK>>, h.op.timeout)
                       EXCEPT !.pc = "act_cereg"]
             ELSE [execute_command(h, AT_CGREG, <<>>, <<S_OK>>, h.op.timeout)
                     EXCEPT !.pc = "act_cgreg"]
  ELSE IF h.pc = "act_qicsgp"
    THEN IF ~out.ok THEN ReturnBool(h, FALSE)
         ELSE [write_command_wait(h, AT_QIACT, S_OK, h.op.timeout)
                 EXCEPT !.pc = "act_qiact"]
  ELSE IF h.pc = "act_qiact"
    THEN IF ~out.ok THEN ReturnBool(h, FALSE)
         ELSE [write_command_wait(h, AT_QIACT_Q, S_OK, h.op.timeout)
                 EXCEPT !.pc = "act_qiact_q"]
  ELSE \* "act_qiact_q"
    ReturnBool(h, out.ok)

Resume(h, out) ==
  IF h.pc \in {"wait_rdy", "hs_at", "hs_ate0", "hs_urccfg", "hs_qsclk", "hs_cpin"}
    THEN turn_on_or_reset_resume(h, out)
  ELSE IF h.pc \in {"act_cgreg", "act_cereg", "act_qicsgp", "act_qiact", "act_qiact_q"}
    THEN activate_resume(h, out)
  ELSE IF h.pc \in {"open_state", "open_ok", "open_ack"}
    THEN socket_open_resume(h, out)
  ELSE IF h.pc \in {"send_prompt", "send_ok"}
    THEN socket_send_resume(h, out)
  ELSE IF h.pc \in {"recv_qird", "recv_ok0", "recv_ok"}
    THEN socket_receive_resume(h, out)
  ELSE IF h.pc = "drain"
    THEN IF ~InList(h.connections, h.loc.connect_id)
           THEN Raise(h, "ValueError")                  \* list.remove(x): x not in list
           ELSE process_remaining_urcs(
                  [h EXCEPT !.connections = ListRemove(@, h.loc.connect_id),
                            !.seen = @ \ {h.loc.connect_id}],
                  h.loc.urc_i + 1)
  ELSE \* "close_ok"
    IF ~InList(h.connections, h.op.id)
      THEN Raise(h, "ValueError")                       \* list.remove(x): x not in list
      ELSE ReturnBool([h EXCEPT !.connections = ListRemove(@, h.op.id),
                                !.seen = @ \ {h.op.id}], TRUE)


(* ---------------------------------------------------------------------- *)
(* read_response_into, wait_response and execute_command: what one line    *)
(* framed into the buffer does                                             *)
(* ---------------------------------------------------------------------- *)
\* the connect id of a line +QIURC: "closed",<id>, None for any other line
ClosedLineId(line) ==
  IF StartsWith(line, S_QIURC \o S_CLOSED \o <<",">>)
    THEN ParseInt(SubSeq(line, 18, Len(line)))
    ELSE None

\* execute_command returns (ok, responses) to the operation
ExecReturned(h, ok, responses) ==
  IF h.wt.prim = "execute_command"
    THEN [h EXCEPT !.loc.exec =
            [ok |-> ok,
             responses |-> [i \in 1..Len(responses) |->
                              ResponseBytes(h.wt.buf, responses[i])],
             expected |-> h.wt.expected,
             seg |-> Len(h.consumed)]]
    ELSE h

\* faulty variant: execute_command does not advance index past a line
LineReturnedSameIndex(h, length) ==
  IF h.wt.prim = "wait_response"
    THEN LET expected_response == h.wt.expected[1]
             expected_length == Len(expected_response)
         IN  IF length >= expected_length
                  /\ BufSlice(h.wt.buf, BufferSize, 0, expected_length) = expected_response
               THEN Resume(h, [ok |-> TRUE,
                               line |-> BufSlice(h.wt.buf, BufferSize, 0, length),
                               responses |-> <<>>])
               ELSE h
    ELSE LET index == h.wt.index
             response == BufSlice(h.wt.buf, BufferSize, index, index + length)
             responses == Append(h.wt.responses, <<index, length>>)
             h2 == [h EXCEPT !.wt.responses = responses]
         IN  IF \E i \in 1..Len(h.wt.expected) : h.wt.expected[i] = response
               THEN Resume(ExecReturned(h2, TRUE, responses),
                           [ok |-> TRUE, line |-> response, responses |-> responses])
               ELSE h2

\* the primitive's loop body for a line that read_response_into returned
LineReturned(h, length) ==
  IF h.wt.prim = "wait_response"
    THEN LET expected_response == h.wt.expected[1]
             expected_length == Len(expected_response)
         IN  IF length >= expected_length
                  /\ BufSlice(h.wt.buf, BufferSize, 0, expected_length) = expected_response
               THEN Resume(h, [ok |-> TRUE,
                               line |-> BufSlice(h.wt.buf, BufferSize, 0, length),
                               responses |-> <<>>])
               ELSE h
    ELSE \* execute_command
         LET index == h.wt.index
             response == BufSlice(h.wt.buf, BufferSize, index, index + length)
             responses == Append(h.wt.responses, <<index, length>>)
             h2 == [h EXCEPT !.wt.responses = responses]
         IN  IF \E i \in 1..Len(h.wt.expected) : h.wt.expected[i] = response
               THEN Resume(ExecReturned(h2, TRUE, responses),
                           [ok |-> TRUE, line |-> response, responses |-> responses])
               ELSE [h2 EXCEPT !.wt.index = index + length]

\* read_response_into after __read_response_into returned `length`
read_response_into(h, length) ==
  LET u == UrcFilter(h.wt.buf, BufferSize, h.wt.index, length)
      line == BufSlice(h.wt.buf, BufferSize, h.wt.index, h.wt.index + length)
      cid == ClosedLineId(line)
      h1 == [h EXCEPT !.seen = IF cid # None /\ InList(h.connections, cid)
                                 THEN @ \cup {cid} ELSE @]
  IN  IF u.kind = "closed"
        THEN IF h1.urcs = UrcsNone
               THEN Raise(h1, "AttributeError")
               ELSE [h1 EXCEPT !.urcs = Append(@, <<"closed", u.id>>)]
      ELSE IF u.kind = "ValueError" THEN Raise(h1, "ValueError")
      ELSE LineReturned([h1 EXCEPT !.consumed[Len(h.consumed)] = Append(@, line)],
                        length)

\* the coroutine runs until the receive FIFO is empty or a line is framed
ReadStep(h) ==
  LET st0 == [state |-> h.wt.state, response_length |-> h.wt.response_length,
              buf |-> h.wt.buf, ret |-> None, err |-> FALSE]
      r == RunFramer(st0, h.rx, BufferSize, h.wt.index)
      h1 == [h EXCEPT !.rx = r.rx, !.wt.buf = r.st.buf]
  IN  IF r.st.err THEN Raise(h1, "IndexError")
      ELSE IF r.st.ret = None
        THEN [h1 EXCEPT !.wt.state = r.st.state,
                        !.wt.response_length = r.st.response_length]
      ELSE read_response_into([h1 EXCEPT !.wt.state = 0, !.wt.response_length = 0],
                              r.st.ret)

\* faulty variant: socket_close returns False when its wait for OK times out
TimeoutStepCloseGivesUp(h) ==
  IF h.pc = "close_ok"
    THEN ReturnBool([h EXCEPT !.loc.timedout = @ \cup {h.pc}], FALSE)
    ELSE Resume(ExecReturned([h EXCEPT !.loc.timedout = @ \cup {h.pc}], FALSE,
                             h.wt.responses),
                [ok |-> FALSE, line |-> <<>>, responses |-> h.wt.responses])

\* faulty variant: socket_send raises when SEND OK does not come in time
TimeoutStepSendRaises(h) ==
  IF h.pc = "send_ok"
    THEN Raise([h EXCEPT !.loc.timedout = @ \cup {h.pc}], "TimeoutError")
    ELSE Resume(ExecReturned([h EXCEPT !.loc.timedout = @ \cup {h.pc}], FALSE,
                             h.wt.responses),
                [ok |-> FALSE, line |-> <<>>, responses |-> h.wt.responses])

\* the primitive returns None: (False, responses) from execute_command
TimeoutStep(h) ==
  Resume(ExecReturned([h EXCEPT !.loc.timedout = @ \cup {h.pc}], FALSE, h.wt.responses),
         [ok |-> FALSE, line |-> <<>>, responses |-> h.wt.responses])

\* asyncio.CancelledError is thrown into the coroutine at the await where it
\* is suspended: __read_response_into catches it and returns None, wait_prompt
\* and wait_busy have no handler
CancelStep(h) ==
  IF h.wt.prim \in {"wait_response", "execute_command"}
    THEN Resume(ExecReturned([h EXCEPT !.loc.cancelled = @ \cup {h.pc}], FALSE,
                             h.wt.responses),
                [ok |-> FALSE, line |-> <<>>, responses |-> h.wt.responses])
    ELSE Raise([h EXCEPT !.loc.cancelled = @ \cup {h.pc}], "CancelledError")

(* ---------------------------------------------------------------------- *)
(* wait_prompt on the bytes in the receive FIFO                            *)
(* ---------------------------------------------------------------------- *)
\* the loop over the bytes rxq[lo..hi], entered with `index`; pos is the last
\* byte read
RECURSIVE PromptScan(_, _, _, _, _)
PromptScan(index, rxq, lo, hi, expected_prompt) ==
  IF lo = hi
    THEN IF expected_prompt[index + 1] = rxq[lo]
           THEN [matched |-> index + 1 = Len(expected_prompt), index |-> index + 1,
                 pos |-> lo]
           ELSE [matched |-> FALSE, index |-> 0, pos |-> lo]
    ELSE LET mid == (lo + hi) \div 2
             first == PromptScan(index, rxq, lo, mid, expected_prompt)
         IN  IF first.matched THEN first
             ELSE PromptScan(first.index, rxq, mid + 1, hi, expected_prompt)

RunPrompt(index, rxq, expected_prompt) ==
  IF rxq = <<>> THEN [matched |-> FALSE, index |-> index, rx |-> rxq]
  ELSE LET r == PromptScan(index, rxq, 1, Len(rxq), expected_prompt)
       IN  [matched |-> r.matched, index |-> r.index,
            rx |-> SubSeq(rxq, r.pos + 1, Len(rxq))]

\* faulty variant: any byte is taken for the prompt
PromptStepAnyByte(h) ==
  LET r == RunPrompt(h.wt.index, h.rx, h.wt.expected[1])
      h1 == [h EXCEPT !.rx = r.rx, !.wt.index = r.index]
  IN  IF r.matched \/ h.rx # <<>>
        THEN Resume(h1, [ok |-> TRUE, line |-> <<>>, responses |-> <<>>])
      ELSE IF h.wt.timeout = None THEN Raise(h1, "TypeError")
      ELSE h1

PromptStep(h) ==
  LET r == RunPrompt(h.wt.index, h.rx, h.wt.expected[1])
      h1 == [h EXCEPT !.rx = r.rx, !.wt.index = r.index]
  IN  IF r.matched THEN Resume(h1, [ok |-> TRUE, line |-> <<>>, responses |-> <<>>])
      ELSE IF h.wt.timeout = None THEN Raise(h1, "TypeError")  \* int - int > None
      ELSE h1

(* ---------------------------------------------------------------------- *)
(* The public operations up to their first suspension                      *)
(* ---------------------------------------------------------------------- *)
Begin(h, name, id, timeout, stype, length) ==
  [h EXCEPT !.op = [name |-> name, id |-> id, timeout |-> timeout,
                    stype |-> stype, length |-> length],
            !.wlog = <<>>, !.consumed = << <<>> >>,
            !.last = NoResult,
            !.prevclosed = IF h.last.op.name = "socket_close" /\ h.last.kind = "bool"
                                /\ h.last.val = 1
                             THEN h.last.op.id ELSE None,
            !.loc = [NoLoc EXCEPT !.before = h.connections, !.urcs = h.urcs,
                                  !.seen = h.seen]]

ValidConnectId(connect_id) == 0 <= connect_id /\ connect_id <= MAX_CONNECT_ID

turn_on_or_reset(h, is_busy) ==
  LET h1 == [Begin(h, "turn_on_or_reset", 0, None, 0, 0) EXCEPT !.urcs = <<>>]
  IN  IF is_busy
        THEN [h1 EXCEPT !.pc = "wait_busy"]                       \* turn_on
        ELSE [wait_response([h1 EXCEPT !.rx = <<>>], S_RDY, None)  \* reset
                EXCEPT !.pc = "wait_rdy"]

\* one iteration of the loop of wait_busy, then the first wait for RDY
wait_busy(h, is_busy) ==
  IF ~is_busy THEN [wait_response(h, S_RDY, None) EXCEPT !.pc = "wait_rdy", !.loc.trial = 0]
  ELSE IF h.loc.trial + 1 < WaitBusyTrials THEN [h EXCEPT !.loc.trial = h.loc.trial + 1]
  ELSE ReturnBool(h, FALSE)

activate(h, timeout) ==
  [execute_command(Begin(h, "activate", 0, timeout, 0, 0), AT_CGREG, <<>>, <<S_OK>>,
                   timeout)
     EXCEPT !.pc = "act_cgreg"]

socket_open(h, socket_type, timeout) ==
  process_remaining_urcs(Begin(h, "socket_open", 0, timeout, socket_type, 0), 1)

\* faulty variant: the pending URCs are not handled first
socket_send_undrained(h, connect_id, length, timeout) ==
  IF ~ValidConnectId(connect_id)
    THEN Raise(Begin(h, "socket_send", connect_id, timeout, 0, length), "AssertionError")
    ELSE socket_send_body(Begin(h, "socket_send", connect_id, timeout, 0, length))

socket_send(h, connect_id, length, timeout) ==
  IF ~ValidConnectId(connect_id)
    THEN Raise(Begin(h, "socket_send", connect_id, timeout, 0, length), "AssertionError")
    ELSE process_remaining_urcs(Begin(h, "socket_send", connect_id, timeout, 0, length), 1)

socket_receive(h, connect_id, length, timeout) ==
  IF ~ValidConnectId(connect_id)
    THEN Raise(Begin(h, "socket_receive", connect_id, timeout, 0, length), "AssertionError")
    ELSE process_remaining_urcs(Begin(h, "socket_receive", connect_id, timeout, 0, length), 1)

\* faulty variant: no test that the id is open
socket_close_unchecked(h, connect_id, timeout) ==
  LET h1 == Begin(h, "socket_close", connect_id, timeout, 0, 0)
  IN  IF ~ValidConnectId(connect_id) THEN Raise(h1, "AssertionError")
      ELSE [write_command_wait(h1, QICLOSE_Command(connect_id), S_OK, timeout)
              EXCEPT !.pc = "close_ok"]

socket_close(h, connect_id, timeout) ==
  LET h1 == Begin(h, "socket_close", connect_id, timeout, 0, 0)
  IN  IF ~ValidConnectId(connect_id) THEN Raise(h1, "AssertionError")
      ELSE IF ~InList(h1.connections, connect_id) THEN ReturnBool(h1, FALSE)
      ELSE [write_command_wait(h1, QICLOSE_Command(connect_id), S_OK, timeout)
              EXCEPT !.pc = "close_ok"]

\* uart.readinto(mv[offset:offset+length], actual_length) and the return of
\* socket_receive: at most min(actual_length, length) of the bytes in the FIFO
uart_readinto(h) ==
  LET n == Min(h.loc.actual_length, h.op.length)
      k == Min(n, Len(h.rx))
      bytes_read == IF k = 0 THEN None ELSE k
      h1 == [h EXCEPT !.rx = SubSeq(h.rx, k + 1, Len(h.rx))]
  IN  IF bytes_read = h.loc.actual_length
        THEN [wait_response(h1, S_OK, h.op.timeout) EXCEPT !.pc = "recv_ok"]
        ELSE ReturnNone([h1 EXCEPT !.loc.short = TRUE])

(* ---------------------------------------------------------------------- *)
(* The modem (environment): answers the commands in the order written,     *)
(* line by line, and reports peer closes with +QIURC: "closed",<id>        *)
(* ---------------------------------------------------------------------- *)
Line(bytes) == [raw |-> FALSE, bytes |-> bytes]
Raw(bytes) == [raw |-> TRUE, bytes |-> bytes]

Wire(item) == IF item.raw THEN item.bytes ELSE <<CR, LF>> \o item.bytes \o <<CR, LF>>

CommandOf(w) ==
  IF w # <<>> /\ w[Len(w)] = CR THEN SubSeq(w, 1, Len(w) - 1) ELSE w

\* the +QISTATE: lines of the open connections, sent in one burst
RECURSIVE ListingBytes(_)
ListingBytes(live) ==
  IF live = {} THEN <<>>
  ELSE LET m == CHOOSE x \in live : \A y \in live : x <= y
       IN  Wire(Line(S_QISTATE \o Str(m) \o <<",", "\"", "T", "C", "P", "\"">>))
             \o ListingBytes(live \ {m})

Listing(live) == IF live = {} THEN <<>> ELSE <<Raw(ListingBytes(live))>>

ClosedUrc(connect_id) == S_QIURC \o S_CLOSED \o <<",">> \o Str(connect_id)

\* an answer of the modem: the lines it sends, the connections it then has,
\* its mode, and whether it reports a failure
Reply(out, live, mode, err) ==
  [out |-> out, live |-> live, mode |-> mode, err |-> err, pending |-> FALSE]

\* registration states the modem reports: searching (2) while it has not
\* registered, else not searching, home, unknown or roaming (0, 1, 4, 5)
PendingStats == {2}
FinalStats == {0, 1, 4, 5}

\* the answer to AT+CGREG? or AT+CEREG? (prefix +CGREG: or +CEREG:)
StatusReplies(prefix, live) ==
  {[Reply(<<Line(prefix \o <<" ", "0", ",">> \o Str(stat)), Line(S_OK)>>, live, "cmd", FALSE)
      EXCEPT !.pending = stat \in PendingStats] : stat \in PendingStats \cup FinalStats}

\* the answers the modem may give to a command
Replies(cmd, live) ==
  IF StartsWith(cmd, AT_QISTATE)
    THEN {Reply(Listing(live) \o <<Line(S_OK)>>, live, "cmd", FALSE)}
  ELSE IF StartsWith(cmd, AT_QIOPEN)
    THEN LET id == ParseInt(FirstField(SubSeq(cmd, Len(AT_QIOPEN) + 1, Len(cmd)), ","))
         IN  {Reply(<<Line(S_OK), Line(S_QIOPEN \o Str(id) \o <<",", "1">>)>>,
                    live, "cmd", TRUE),
              Reply(<<Line(S_ERROR)>>, live, "cmd", TRUE)}
             \cup (IF id \in live THEN {}
                   ELSE {Reply(<<Line(S_OK), Line(S_QIOPEN \o Str(id) \o <<",", "0">>)>>,
                               live \cup {id}, "cmd", FALSE)})
  ELSE IF StartsWith(cmd, AT_QISEND)
    THEN {Reply(<<Raw(S_PROMPT)>>, live, "payload", FALSE),
          Reply(<<Line(S_ERROR)>>, live, "cmd", TRUE)}
  ELSE IF StartsWith(cmd, AT_QIRD)
    THEN {Reply(<<Line(S_QIRD \o <<"0">>), Line(S_OK)>>, live, "cmd", FALSE),
          Reply(<<Line(S_QIRD \o <<"2">>), Raw(<<"d", "d", CR, LF>>), Line(S_OK)>>,
                live, "cmd", FALSE),
          Reply(<<Line(S_QIRD \o <<"x">>)>>, live, "cmd", TRUE)}
  ELSE IF StartsWith(cmd, AT_QICLOSE)
    THEN LET id == ParseInt(SubSeq(cmd, Len(AT_QICLOSE) + 1, Len(cmd)))
         IN  {Reply(<<Line(S_OK)>>, live \ {id}, "cmd", FALSE)}
  ELSE IF cmd = AT_CGREG THEN StatusReplies(S_CGREG, live)
  ELSE IF cmd = AT_CEREG THEN StatusReplies(S_CEREG, live)
  ELSE IF StartsWith(cmd, AT_CPIN)
    THEN {Reply(<<Line(S_CPIN_READY), Line(S_OK)>>, live, "cmd", FALSE),
          Reply(<<Line(S_CME_ERROR)>>, live, "cmd", TRUE)}
  ELSE {Reply(<<Line(S_OK)>>, live, "cmd", FALSE),
        Reply(<<Line(S_ERROR)>>, live, "cmd", TRUE)}

\* the answers to the payload of a send
PayloadReplies(live) ==
  {Reply(<<Line(S_SEND_OK)>>, live, "cmd", FALSE),
   Reply(<<Line(S_SEND_FAIL)>>, live, "cmd", TRUE)}

(* ---------------------------------------------------------------------- *)
(* Bounds and inputs of the engine model                                   *)
(* ---------------------------------------------------------------------- *)
MaxOps == 2
MaxUrcs == 1
\* number of failures the modem reports
MaxErrors == 1
\* number of times the modem reports that it is still searching
MaxPending == 2

\* connect ids the callers pass, and ids whose peer may close
IdInputs == {0, 3}
UrcIds == {0, 1}
TypeInputs == {SOCKET_TCP}
LengthInputs == {0, 2, MAX_SOCKET_DATA_SIZE + 1}
TimeoutInputs == {None, TimeoutMs}
\* numbers of connections that are open when the model starts
OpenAtStart == {3, MAX_CONNECT_ID}

FramerIdle ==
  /\ f_stream = <<>> /\ f_script = <<>> /\ f_rx = <<>> /\ f_now = 0
  /\ f_st = FramerInit(<<>>) /\ f_pc = "ret" /\ f_res = None /\ f_cap = 1
  /\ f_off = 0 /\ f_timeout = None /\ f_start = 0 /\ f_last = FALSE

EngineIdle ==
  /\ connections = <<>> /\ urcs = UrcsNone /\ pc = "idle" /\ op = NoOp
  /\ wt = NoWait /\ loc = NoLoc /\ rx = <<>> /\ tx = <<>> /\ wlog = <<>>
  /\ consumed = << <<>> >> /\ last = NoResult /\ prevclosed = None
  /\ seen = {} /\ nops = 0
  /\ dev = [live |-> {}, out |-> <<>>, mode |-> "cmd", boot |-> FALSE, nurc |-> 0, nerr |-> 0, npending |-> 0]
  /\ other = NoTask /\ ncancel = 0 /\ DriverIdle

\* the engine as constructed (LTEModule.__init__), or after turn_on_or_reset
\* and k successful socket_open calls
Init ==
  /\ FramerIdle
  /\ pc = "idle" /\ op = NoOp /\ wt = NoWait /\ loc = NoLoc
  /\ rx = <<>> /\ tx = <<>> /\ wlog = <<>> /\ consumed = << <<>> >>
  /\ last = NoResult /\ prevclosed = None /\ seen = {} /\ nops = 0
  /\ other = NoTask /\ ncancel = 0 /\ DriverIdle
  /\ \/ /\ connections = <<>>
        /\ urcs = UrcsNone
        /\ dev = [live |-> {}, out |-> <<>>, mode |-> "cmd", boot |-> FALSE, nurc |-> 0, nerr |-> 0, npending |-> 0]
     \/ \E k \in OpenAtStart :
          /\ connections = [i \in 1..k |-> i - 1]
          /\ urcs = <<>>
          /\ dev = [live |-> 0..(k - 1), out |-> <<>>, mode |-> "cmd",
                    boot |-> FALSE, nurc |-> 0, nerr |-> 0, npending |-> 0]

Waiting == pc \notin {"idle", "wait_busy", "recv_read"}

\* ---- the callers ----
HostTurnOnOrReset ==
  /\ pc = "idle" /\ nops < MaxOps
  /\ \E is_busy \in BOOLEAN : Apply(turn_on_or_reset(Host, is_busy))
  /\ nops' = nops + 1
  /\ dev' = [dev EXCEPT !.boot = TRUE]     \* the PWRKEY / RESET pulse
  /\ UNCHANGED <<fvars, tvars>>

HostActivate ==
  /\ pc = "idle" /\ nops < MaxOps
  /\ \E timeout \in TimeoutInputs : Apply(activate(Host, timeout))
  /\ nops' = nops + 1
  /\ UNCHANGED <<dev, fvars, tvars>>

HostSocketOpen ==
  /\ pc = "idle" /\ nops < MaxOps
  /\ \E socket_type \in TypeInputs :
       Apply(socket_open(Host, socket_type, TimeoutMs))
  /\ nops' = nops + 1
  /\ UNCHANGED <<dev, fvars, tvars>>

HostSocketSend ==
  /\ pc = "idle" /\ nops < MaxOps
  /\ \E connect_id \in IdInputs, length \in LengthInputs, timeout \in TimeoutInputs :
       Apply(socket_send(Host, connect_id, length, timeout))
  /\ nops' = nops + 1
  /\ UNCHANGED <<dev, fvars, tvars>>

HostSocketReceive ==
  /\ pc = "idle" /\ nops < MaxOps
  /\ \E connect_id \in IdInputs, length \in LengthInputs, timeout \in TimeoutInputs :
       Apply(socket_receive(Host, connect_id, length, timeout))
  /\ nops' = nops + 1
  /\ UNCHANGED <<dev, fvars, tvars>>

HostSocketClose ==
  /\ pc = "idle" /\ nops < MaxOps
  /\ \E connect_id \in IdInputs, timeout \in TimeoutInputs :
       Apply(socket_close(Host, connect_id, timeout))
  /\ nops' = nops + 1
  /\ UNCHANGED <<dev, fvars, tvars>>

\* ---- the running coroutine ----
WaitBusy ==
  /\ pc = "wait_busy"
  /\ \E is_busy \in BOOLEAN : Apply(wait_busy(Host, is_busy))
  /\ UNCHANGED <<nops, dev, fvars, tvars>>

ReadResponse ==
  /\ Waiting /\ wt.prim \in {"wait_response", "execute_command"}
  /\ rx # <<>>
  /\ Apply(ReadStep(Host))
  /\ UNCHANGED <<nops, dev, fvars, tvars>>

\* readchar() < 0 and the timeout has elapsed
ReadTimeout ==
  /\ Waiting /\ wt.prim \in {"wait_response", "execute_command"}
  /\ rx = <<>> /\ wt.timeout # None
  /\ Apply(TimeoutStep(Host))
  /\ UNCHANGED <<nops, dev, fvars, tvars>>

PromptRead ==
  /\ Waiting /\ wt.prim = "wait_prompt"
  /\ rx # <<>> \/ wt.timeout = None
  /\ Apply(PromptStep(Host))
  /\ UNCHANGED <<nops, dev, fvars, tvars>>

PromptTimeout ==
  /\ Waiting /\ wt.prim = "wait_prompt"
  /\ rx = <<>> /\ wt.timeout # None
  /\ Apply(TimeoutStep(Host))
  /\ UNCHANGED <<nops, dev, fvars, tvars>>

UartReadInto ==
  /\ pc = "recv_read"
  /\ Apply(uart_readinto(Host))
  /\ UNCHANGED <<nops, dev, fvars, tvars>>

\* ---- the modem ----
DeviceBoot ==
  /\ dev.boot
  /\ dev' = [dev EXCEPT !.boot = FALSE, !.live = {}, !.mode = "cmd",
                        !.out = <<Line(S_RDY)>>]
  /\ tx' = <<>>
  /\ UNCHANGED <<connections, urcs, pc, op, wt, loc, rx, wlog, consumed,
                 last, prevclosed, seen, nops, fvars, tvars>>

DeviceReceive ==
  /\ ~dev.boot /\ tx # <<>> /\ dev.out = <<>>
  /\ \E r \in (IF dev.mode = "payload" THEN PayloadReplies(dev.live)
               ELSE Replies(CommandOf(Head(tx)), dev.live)) :
       /\ r.err => dev.nerr < MaxErrors
       /\ r.pending => dev.npending < MaxPending
       /\ dev' = [dev EXCEPT !.out = r.out, !.live = r.live, !.mode = r.mode,
                             !.nerr = IF r.err THEN @ + 1 ELSE @,
                             !.npending = IF r.pending THEN @ + 1 ELSE @]
  /\ tx' = Tail(tx)
  /\ UNCHANGED <<connections, urcs, pc, op, wt, loc, rx, wlog, consumed,
                 last, prevclosed, seen, nops, fvars, tvars>>

DeviceEmit ==
  /\ ~dev.boot /\ dev.out # <<>>
  /\ rx' = rx \o Wire(Head(dev.out))
  /\ dev' = [dev EXCEPT !.out = Tail(@)]
  /\ UNCHANGED <<connections, urcs, pc, op, wt, loc, tx, wlog, consumed,
                 last, prevclosed, seen, nops, fvars, tvars>>

\* the peer closes a connection
DeviceUrc ==
  /\ ~dev.boot /\ dev.nurc < MaxUrcs
  /\ \E id \in dev.live \cap UrcIds :
       /\ rx' = rx \o Wire(Line(ClosedUrc(id)))
       /\ dev' = [dev EXCEPT !.live = @ \ {id}, !.nurc = @ + 1]
  /\ UNCHANGED <<connections, urcs, pc, op, wt, loc, tx, wlog, consumed,
                 last, prevclosed, seen, nops, fvars, tvars>>

Next ==
  \/ HostTurnOnOrReset \/ HostActivate \/ HostSocketOpen \/ HostSocketSend
  \/ HostSocketReceive \/ HostSocketClose
  \/ WaitBusy \/ ReadResponse \/ ReadTimeout \/ PromptRead \/ PromptTimeout
  \/ UartReadInto
  \/ DeviceBoot \/ DeviceReceive \/ DeviceEmit \/ DeviceUrc

Spec == Init /\ [][Next]_vars

(* ---------------------------------------------------------------------- *)
(* One socket operation called with closed events in the queue, while the  *)
(* peer may close another connection                                       *)
(* ---------------------------------------------------------------------- *)
\* queues a call may find: events read during the waits of earlier operations
QueuedAtStart ==
  {<< <<"closed", 0>> >>, << <<"closed", 0>>, <<"closed", 1>> >>,
   << <<"closed", 3>> >>}

\* connections 0, 1, 2 were opened; the peers of the queued ids have closed
DInit ==
  /\ FramerIdle
  /\ pc = "idle" /\ op = NoOp /\ wt = NoWait /\ loc = NoLoc
  /\ rx = <<>> /\ tx = <<>> /\ wlog = <<>> /\ consumed = << <<>> >>
  /\ last = NoResult /\ prevclosed = None /\ seen = {}
  /\ nops = MaxOps - 1
  /\ other = NoTask /\ ncancel = 0 /\ DriverIdle
  /\ connections = <<0, 1, 2>>
  /\ urcs \in QueuedAtStart
  /\ dev = [live |-> (0..2) \ {urcs[i][2] : i \in 1..Len(urcs)}, out |-> <<>>, mode |-> "cmd",
            boot |-> FALSE, nurc |-> 0, nerr |-> 0, npending |-> 0]

NextDrain ==
  \/ HostSocketOpen \/ HostSocketSend
  \/ ReadResponse \/ ReadTimeout \/ PromptRead \/ PromptTimeout
  \/ DeviceReceive \/ DeviceEmit \/ DeviceUrc

SpecDrain == DInit /\ [][NextDrain]_vars

(* ---------------------------------------------------------------------- *)
(* The network driver: active, connect and disconnect run the engine's     *)
(* turn_on_or_reset and activate to completion (loop.run_until_complete)   *)
(* ---------------------------------------------------------------------- *)
\* the coroutine handed to run_until_complete has returned True
ReturnedTrue == last.kind = "bool" /\ last.val = 1

\* how a call that ran a coroutine ends: with the exception of the coroutine
\* or with the value retval
CallResult(retval) == IF last.kind = "raise" THEN "raise" ELSE retval

\* active(is_active) up to run_until_complete(turn_on_or_reset()), or all of
\* it when the interface is in the state asked for or is switched off
DriverActive ==
  /\ d_pc = "idle" /\ pc = "idle"
  /\ \E is_active \in BOOLEAN :
       IF active = is_active
         THEN /\ d_res' = "True"
              /\ UNCHANGED <<active, is_connected, d_pc, evars>>
       ELSE IF is_active
         THEN /\ nops < MaxOps
              /\ \E is_busy \in BOOLEAN : Apply(turn_on_or_reset(Host, is_busy))
              /\ nops' = nops + 1
              /\ dev' = [dev EXCEPT !.boot = TRUE]
              /\ d_pc' = "active"
              /\ UNCHANGED <<active, is_connected, d_res>>
       ELSE \* set_supply_power(to_supply=False)
            /\ active' = FALSE
            /\ is_connected' = FALSE
            /\ d_res' = "True"
            /\ dev' = [dev EXCEPT !.boot = FALSE, !.out = <<>>, !.live = {}]
            /\ tx' = <<>>
            /\ UNCHANGED <<connections, urcs, pc, op, wt, loc, rx, wlog, consumed,
                           last, prevclosed, seen, nops, d_pc>>
  /\ UNCHANGED <<other, ncancel, fvars>>

\* turn_on_or_reset has ended: the rest of active(True)
DriverActiveReturn ==
  /\ d_pc = "active" /\ pc = "idle"
  /\ active' = (active \/ ReturnedTrue)
  /\ d_res' = CallResult(IF ReturnedTrue THEN "True" ELSE "False")
  /\ d_pc' = "idle"
  /\ UNCHANGED <<is_connected, evars, other, ncancel, fvars>>

\* faulty variant: connect does not test self.__active
DriverConnectUnchecked ==
  /\ d_pc = "idle" /\ pc = "idle"
  /\ nops < MaxOps
  /\ Apply(activate(Host, None))
  /\ nops' = nops + 1
  /\ d_pc' = "connect"
  /\ UNCHANGED <<dev, active, is_connected, d_res>>
  /\ UNCHANGED <<other, ncancel, fvars>>

\* connect(access_point, user, password) up to run_until_complete(activate())
DriverConnect ==
  /\ d_pc = "idle" /\ pc = "idle"
  /\ IF ~active
       THEN /\ d_res' = "RuntimeError"
            /\ UNCHANGED <<active, is_connected, d_pc, evars>>
       ELSE /\ nops < MaxOps
            /\ Apply(activate(Host, None))
            /\ nops' = nops + 1
            /\ d_pc' = "connect"
            /\ UNCHANGED <<dev, active, is_connected, d_res>>
  /\ UNCHANGED <<other, ncancel, fvars>>

\* activate has ended: the rest of connect
DriverConnectReturn ==
  /\ d_pc = "connect" /\ pc = "idle"
  /\ is_connected' = (is_connected \/ ReturnedTrue)
  /\ d_res' = CallResult("None")
  /\ d_pc' = "idle"
  /\ UNCHANGED <<active, evars, other, ncancel, fvars>>

\* disconnect()
DriverDisconnect ==
  /\ d_pc = "idle" /\ pc = "idle"
  /\ is_connected' = FALSE
  /\ d_res' = "None"
  /\ UNCHANGED <<active, d_pc, evars, other, ncancel, fvars>>

NextDriver ==
  \/ DriverActive \/ DriverActiveReturn \/ DriverConnect \/ DriverConnectReturn
  \/ DriverDisconnect
  \/ WaitBusy \/ ReadResponse \/ ReadTimeout
  \/ DeviceBoot \/ DeviceReceive \/ DeviceEmit

\* driver and engine as constructed: no connection, self.__urcs = None
NInit == Init /\ connections = <<>>

SpecDriver == NInit /\ [][NextDriver]_vars

(* ---------------------------------------------------------------------- *)
(* Two tasks that call the engine                                          *)
(* ---------------------------------------------------------------------- *)
\* the running task's coroutine
Running ==
  [pc |-> pc, op |-> op, wt |-> wt, loc |-> loc, wlog |-> wlog, consumed |-> consumed]

\* the running task is at await asyncio.sleep_ms(..) (no byte to read), or
\* not inside an operation
Suspended == pc \in {"idle", "wait_busy"} \/ (Waiting /\ rx = <<>>)

\* the scheduler runs the other task
TaskSwitch ==
  /\ Suspended
  /\ pc # "idle" \/ other.pc # "idle"
  /\ other' = Running
  /\ pc' = other.pc /\ op' = other.op /\ wt' = other.wt /\ loc' = other.loc
  /\ wlog' = other.wlog /\ consumed' = other.consumed
  /\ UNCHANGED <<connections, urcs, rx, tx, last, prevclosed, seen, nops, dev,
                 ncancel, nvars, fvars>>

NextTasks ==
  \/ HostSocketSend \/ HostSocketClose \/ TaskSwitch
  \/ ReadResponse \/ ReadTimeout \/ PromptRead \/ PromptTimeout
  \/ DeviceReceive \/ DeviceEmit \/ DeviceUrc

SpecTasks == Init /\ [][NextTasks]_vars

(* ---------------------------------------------------------------------- *)
(* A module that sends nothing: it never leaves its boot after the pulse.  *)
(* The scheduler resumes a coroutine that sleeps in wait_busy (weak        *)
(* fairness); a coroutine in wait_response has nothing to read.            *)
(* ---------------------------------------------------------------------- *)
NextNoBoot == HostTurnOnOrReset \/ WaitBusy

SpecNoBoot == Init /\ [][NextNoBoot]_vars /\ WF_vars(WaitBusy)

(* ---------------------------------------------------------------------- *)
(* A task that is cancelled                                                *)
(* ---------------------------------------------------------------------- *)
MaxCancels == 1

\* task.cancel() while the coroutine is suspended in a sleep
Cancel ==
  /\ pc # "idle" /\ Suspended
  /\ ncancel < MaxCancels
  /\ Apply(CancelStep(Host))
  /\ ncancel' = ncancel + 1
  /\ UNCHANGED <<nops, dev, other, nvars, fvars>>

NextCancel ==
  \/ HostTurnOnOrReset \/ HostSocketSend \/ Cancel
  \/ WaitBusy \/ ReadResponse \/ ReadTimeout \/ PromptRead \/ PromptTimeout
  \/ DeviceBoot \/ DeviceReceive \/ DeviceEmit \/ DeviceUrc

SpecCancel == Init /\ [][NextCancel]_vars

RECURSIVE SeqsUpTo(_, _)
SeqsUpTo(S, n) ==
  IF n = 0 THEN {<<>>}
  ELSE LET shorter == SeqsUpTo(S, n - 1)
       IN  shorter \cup {Append(s, x) : s \in {t \in shorter : Len(t) = n - 1}, x \in S}

BodyBytes == {"a", LF}
StreamBytes == {"a", CR, LF}

Framed(body) == <<CR, LF, CR, LF>> \o body \o <<CR, LF>>

FramerStreams ==
  {Framed(b) : b \in SeqsUpTo(BodyBytes, MaxCap + 1) \ {<<>>}}
    \cup SeqsUpTo(StreamBytes, MaxStream)

FInit ==
  /\ EngineIdle
  /\ f_stream \in FramerStreams
  /\ f_script = f_stream
  /\ f_rx = <<>>
  /\ f_now = 0
  /\ f_cap \in 1..MaxCap
  /\ f_off = 0
  /\ f_st = FramerInit(<<>>)
  /\ f_pc = "run"
  /\ f_res = None
  /\ f_timeout \in {None, 1}
  /\ f_start = 0
  /\ f_last = FALSE

\* (time.ticks_ms() - start_time_ms) >= timeout
Expired == f_timeout # None /\ (f_now - f_start) >= f_timeout

\* the clock advances
FTick ==
  /\ f_now < MaxTime
  /\ f_now' = f_now + 1
  /\ UNCHANGED <<f_stream, f_script, f_rx, f_st, f_pc, f_res, f_cap, f_off,
                 f_timeout, f_start, f_last, evars, tvars>>

\* the next byte of the stream reaches the UART
FArrive ==
  /\ f_script # <<>>
  /\ f_rx' = Append(f_rx, <<Head(f_script), Expired>>)
  /\ f_script' = Tail(f_script)
  /\ UNCHANGED <<f_stream, f_now, f_st, f_pc, f_res, f_cap, f_off, f_timeout,
                 f_start, f_last, evars, tvars>>

\* one iteration of the while loop: readchar(), then the timeout test or the
\* state machine
FReadChar ==
  /\ f_pc = "run"
  /\ IF f_rx = <<>>
       THEN /\ IF Expired
                 THEN f_pc' = "ret" /\ f_res' = None
                 ELSE f_pc' = "sleep" /\ f_res' = f_res
            /\ UNCHANGED <<f_rx, f_st, f_last>>
       ELSE LET st == FramerStep(f_st, Head(f_rx)[1], f_cap, f_off)
            IN  /\ f_st' = st
                /\ f_rx' = Tail(f_rx)
                /\ f_last' = Head(f_rx)[2]
                /\ IF st.ret # None
                     THEN f_pc' = "ret" /\ f_res' = st.ret
                     ELSE IF st.err
                       THEN f_pc' = "raise" /\ f_res' = f_res
                       ELSE f_pc' = f_pc /\ f_res' = f_res
  /\ UNCHANGED <<f_stream, f_script, f_now, f_cap, f_off, f_timeout, f_start, evars, tvars>>

\* await asyncio.sleep_ms(1) completes
FWake ==
  /\ f_pc = "sleep"
  /\ f_pc' = "run"
  /\ UNCHANGED <<f_stream, f_script, f_rx, f_now, f_st, f_res, f_cap, f_off,
                 f_timeout, f_start, f_last, evars, tvars>>

FNext == FTick \/ FArrive \/ FReadChar \/ FWake

SpecFramer == FInit /\ [][FNext]_vars

\* the framer called with an offset into the buffer, as execute_command calls
\* it: index starts at 0 and grows by the length of every line read, so it
\* takes every value from 0 up to len(response_buffer)
OInit ==
  /\ EngineIdle
  /\ f_stream \in {Framed(b) : b \in SeqsUpTo(BodyBytes, MaxCap + 1) \ {<<>>}}
  /\ f_script = f_stream
  /\ f_rx = <<>>
  /\ f_now = 0
  /\ f_cap \in 1..MaxCap
  /\ f_off \in 0..f_cap
  /\ f_st = FramerInit(<<>>)
  /\ f_pc = "run"
  /\ f_res = None
  /\ f_timeout \in {None, 1}
  /\ f_start = 0
  /\ f_last = FALSE

SpecOffset == OInit /\ [][FNext]_vars

(* ---------------------------------------------------------------------- *)
(* wait_prompt alone: socket_send has written AT+QISEND=0,2 and waits for  *)
(* "> " while a stream of raw bytes arrives                                *)
(* ---------------------------------------------------------------------- *)
MaxPromptStream == 4
PromptBytes == {">", " ", "x"}
PromptStreams == SeqsUpTo(PromptBytes, MaxPromptStream)

\* the engine after turn_on_or_reset and one socket_open, nothing running
OneOpenHost ==
  [connections |-> <<0>>, urcs |-> <<>>, pc |-> "idle", op |-> NoOp, wt |-> NoWait,
   loc |-> NoLoc, rx |-> <<>>, tx |-> <<>>, wlog |-> <<>>, consumed |-> << <<>> >>,
   last |-> NoResult, prevclosed |-> None, seen |-> {}]

PInit ==
  /\ f_stream \in PromptStreams
  /\ f_script = <<>> /\ f_rx = <<>> /\ f_now = 0
  /\ f_st = FramerInit(<<>>) /\ f_pc = "ret" /\ f_res = None /\ f_cap = 1
  /\ f_off = 0 /\ f_timeout = None /\ f_start = 0 /\ f_last = FALSE
  /\ \E timeout \in TimeoutInputs :
       LET h == socket_send(OneOpenHost, 0, 2, timeout)
       IN  /\ connections = h.connections /\ urcs = h.urcs /\ pc = h.pc
           /\ op = h.op /\ wt = h.wt /\ loc = h.loc /\ rx = h.rx
           /\ wlog = h.wlog /\ consumed = h.consumed /\ last = h.last
           /\ prevclosed = h.prevclosed /\ seen = h.seen
  /\ tx = <<>>                              \* the modem has taken the command
  /\ nops = 1
  /\ dev = [live |-> {0}, out |-> [i \in 1..Len(f_stream) |-> Raw(<<f_stream[i]>>)],
            mode |-> "payload", boot |-> FALSE, nurc |-> 0, nerr |-> 0,
            npending |-> 0]
  /\ other = NoTask /\ ncancel = 0 /\ DriverIdle

PNext == DeviceEmit \/ PromptRead \/ PromptTimeout

SpecPrompt == PInit /\ [][PNext]_vars

(* ---------------------------------------------------------------------- *)
(* execute_command alone, with the clock: AT has been written at time 0    *)
(* and the loop calls read_response_into for line after line. f_off is its *)
(* index, f_start the start_time_ms of the running __read_response_into.   *)
(* ---------------------------------------------------------------------- *)
MaxExecLines == 2
ExecLines == {<<"a">>, S_OK}

RECURSIVE WireOf(_)
WireOf(lines) ==
  IF lines = <<>> THEN <<>> ELSE Wire(Line(Head(lines))) \o WireOf(Tail(lines))

ExecStreams == {WireOf(lines) : lines \in SeqsUpTo(ExecLines, MaxExecLines)}

XInit ==
  /\ f_stream \in ExecStreams
  /\ f_script = f_stream /\ f_rx = <<>> /\ f_now = 0
  /\ f_st = FramerInit(<<>>) /\ f_pc = "run" /\ f_res = None
  /\ f_cap = BufferSize /\ f_off = 0
  /\ f_timeout \in {None, 2}
  /\ f_start = 0 /\ f_last = FALSE
  /\ LET h == execute_command(OneOpenHost, AT, <<>>, <<S_OK>>, f_timeout)
     IN  /\ connections = h.connections /\ urcs = h.urcs /\ pc = "execute_command"
         /\ op = h.op /\ wt = h.wt /\ loc = h.loc /\ rx = h.rx /\ tx = h.tx
         /\ wlog = h.wlog /\ consumed = h.consumed /\ last = h.last
         /\ prevclosed = h.prevclosed /\ seen = h.seen
  /\ nops = 0
  /\ dev = [live |-> {0}, out |-> <<>>, mode |-> "cmd", boot |-> FALSE, nurc |-> 0,
            nerr |-> 0, npending |-> 0]
  /\ other = NoTask /\ ncancel = 0 /\ DriverIdle

\* execute_command returns (result, responses)
ExecResult(result) ==
  [NoResult EXCEPT !.op.name = "execute_command", !.kind = "bool",
                   !.val = IF result THEN 1 ELSE 0]

\* the body of the loop of execute_command once read_response_into has
\* returned: None ends it with (False, responses); a line is appended, ends
\* it with (True, responses) when it is in the list, and else the next
\* read_response_into starts at index + length with a new start_time_ms
XLine ==
  /\ f_pc = "ret" /\ pc = "execute_command"
  /\ IF f_res = None
       THEN /\ last' = ExecResult(FALSE) /\ pc' = "idle"
            /\ UNCHANGED <<wt, f_off, f_st, f_pc, f_res, f_start>>
       ELSE LET response == BufSlice(f_st.buf, f_cap, f_off, f_off + f_res)
                responses == Append(wt.responses, <<f_off, f_res>>)
            IN  IF \E i \in 1..Len(wt.expected) : wt.expected[i] = response
                  THEN /\ last' = ExecResult(TRUE) /\ pc' = "idle"
                       /\ wt' = [wt EXCEPT !.responses = responses, !.buf = f_st.buf]
                       /\ UNCHANGED <<f_off, f_st, f_pc, f_res, f_start>>
                  ELSE /\ wt' = [wt EXCEPT !.responses = responses, !.buf = f_st.buf,
                                           !.index = f_off + f_res]
                       /\ f_off' = f_off + f_res
                       /\ f_st' = FramerInit(f_st.buf)
                       /\ f_pc' = "run" /\ f_res' = None
                       /\ f_start' = f_now
                       /\ UNCHANGED <<last, pc>>
  /\ UNCHANGED <<f_stream, f_script, f_rx, f_now, f_cap, f_timeout, f_last,
                 connections, urcs, op, loc, rx, tx, wlog, consumed, prevclosed,
                 seen, nops, dev, tvars>>

\* prefixes the callers pass (<<>>: None)
PrefixInputs == {<<>>, <<"a">>, <<"O">>, <<"b">>}

\* execute_command_single_response(b'AT', starts_with, timeout) once its
\* execute_command has returned: the choice among the responses
XSingle ==
  /\ pc = "idle" /\ last.op.name = "execute_command"
  /\ \E starts_with \in PrefixInputs :
       LET result == last.val = 1
           responses == [i \in 1..Len(wt.responses) |->
                           ResponseBytes(wt.buf, wt.responses[i])]
       IN  last' = [last EXCEPT
                      !.op.name = "execute_command_single_response",
                      !.exec = [ok |-> result, responses |-> responses,
                                expected |-> wt.expected, seg |-> 1],
                      !.prefix = starts_with,
                      !.line = single_response(result, responses, starts_with)]
  /\ UNCHANGED <<connections, urcs, pc, op, wt, loc, rx, tx, wlog, consumed,
                 prevclosed, seen, nops, dev, fvars, tvars>>

XNext == FTick \/ FArrive \/ FReadChar \/ FWake \/ XLine \/ XSingle

SpecExec == XInit /\ [][XNext]_vars

\* the same with a response_buffer of 1..MaxCap bytes passed by the caller, so
\* that the lines of one command reach the end of the buffer
XBInit ==
  /\ f_stream \in ExecStreams
  /\ f_script = f_stream /\ f_rx = <<>> /\ f_now = 0
  /\ f_st = FramerInit(<<>>) /\ f_pc = "run" /\ f_res = None
  /\ f_cap \in 1..MaxCap /\ f_off = 0
  /\ f_timeout \in {None, 2}
  /\ f_start = 0 /\ f_last = FALSE
  /\ LET h == execute_command(OneOpenHost, AT, <<>>, <<S_OK>>, f_timeout)
     IN  /\ connections = h.connections /\ urcs = h.urcs /\ pc = "execute_command"
         /\ op = h.op /\ wt = h.wt /\ loc = h.loc /\ rx = h.rx /\ tx = h.tx
         /\ wlog = h.wlog /\ consumed = h.consumed /\ last = h.last
         /\ prevclosed = h.prevclosed /\ seen = h.seen
  /\ nops = 0
  /\ dev = [live |-> {0}, out |-> <<>>, mode |-> "cmd", boot |-> FALSE, nurc |-> 0,
            nerr |-> 0, npending |-> 0]
  /\ other = NoTask /\ ncancel = 0 /\ DriverIdle

SpecExecBuffer == XBInit /\ [][XNext]_vars

(* ---------------------------------------------------------------------- *)
(* Claims about the line framer (checked under SpecFramer)                 *)
(* ---------------------------------------------------------------------- *)
\* the body of a stream CR LF CR LF <body> CR LF
FBody == SubSeq(f_stream, 5, Len(f_stream) - 2)

\* the stream is CR LF CR LF body CR LF with a CR-free body of 1 up to
\* capacity bytes
FramedCase ==
  /\ Len(f_stream) >= 7
  /\ f_stream = Framed(FBody)
  /\ Len(FBody) <= f_cap - f_off
  /\ \A i \in 1..Len(FBody) : FBody[i] # CR

\* C6: fed CR LF CR LF body CR LF (body CR-free, 1..capacity bytes), the call
\* never raises, and when it returns it returns len(body) with exactly the
\* bytes of body at buffer[offset : offset+len(body)] after consuming the whole
\* stream; it returns None only when the timeout fired before the stream had
\* been read completely.
C6_FramedBodyReturned ==
  FramedCase =>
    /\ f_pc # "raise"
    /\ f_pc = "ret" =>
         \/ f_res = None /\ f_timeout # None /\ (f_script # <<>> \/ f_rx # <<>>)
         \/ /\ f_res = Len(FBody)
            /\ BufSlice(f_st.buf, f_cap, f_off, f_off + f_res) = FBody
            /\ f_rx = <<>> /\ f_script = <<>>

\* a body that fills the destination buffer completely has been returned
C6_Witness ==
  /\ FramedCase
  /\ f_pc = "ret"
  /\ f_res = f_cap
  /\ f_cap >= 2
  /\ BufSlice(f_st.buf, f_cap, f_off, f_off + f_res) = FBody

\* C7 (as claimed): a frame is returned only if it was complete before the
\* deadline, i.e. the call returns None if and only if no complete frame
\* arrived before the deadline; here: the last byte of a returned frame reached
\* the UART before (time.ticks_ms() - start_time_ms) >= timeout held.
C7_TimeoutIffNoFrameByDeadline ==
  f_pc = "ret" => (f_res = None <=> ~(f_res # None /\ ~f_last))

(* ---------------------------------------------------------------------- *)
(* Claims about the command engine and the sockets (checked under Spec)    *)
(* ---------------------------------------------------------------------- *)
Range(q) == {q[i] : i \in 1..Len(q)}

\* the lines of a history of reads, whatever write they followed
LinesOf(cons) == UNION {Range(cons[i]) : i \in 1..Len(cons)}

\* a line of the form +QIURC: "closed",<id>
IsClosedLine(line) == StartsWith(line, S_QIURC \o S_CLOSED \o <<",">>)

\* C1 (as claimed): no line +QIURC: "closed",<id> is handed to execute_command
\* (which appends every line it is handed to the list it returns) or to
\* wait_response, whatever lines preceded it in the same command.
C1_ClosedLineNeverSurfaced ==
  /\ \A line \in LinesOf(consumed) : ~IsClosedLine(line)
  /\ wt.prim = "execute_command" =>
       \A i \in 1..Len(wt.responses) :
          ~IsClosedLine(ResponseBytes(wt.buf, wt.responses[i]))

\* C2 (as claimed): once the closed line of a locally open id X has been read,
\* socket_is_connected(X) is false, and a socket_send or socket_receive on X
\* called after that returns False without having written anything.
C2_ClosedIdFailsFast ==
  /\ \A X \in seen : ~socket_is_connected(connections, urcs, X)
  /\ (last.op.name \in {"socket_send", "socket_receive"} /\ last.op.id \in last.seen) =>
       last.kind = "bool" /\ last.val = 0 /\ last.wlog = <<>>

\* ---- socket_open: the choice of the connect id ----
\* the position in a write log of the last AT+QISTATE?, 0 when there is none
QueryIndex(w) ==
  IF \E i \in 1..Len(w) : w[i] = Append(AT_QISTATE, CR)
    THEN CHOOSE i \in 1..Len(w) :
           /\ w[i] = Append(AT_QISTATE, CR)
           /\ \A j \in (i + 1)..Len(w) : w[j] # Append(AT_QISTATE, CR)
    ELSE 0

\* the lines read in reply to the AT+QISTATE? of an operation
QueryReply(w, cons) == cons[QueryIndex(w) + 1]

\* the ids named in the +QISTATE: lines of that reply
Listed(w, cons) ==
  {ParseInt(FirstField(SubSeq(QueryReply(w, cons)[i], 11, Len(QueryReply(w, cons)[i])), ",")) :
     i \in {k \in 1..Len(QueryReply(w, cons)) :
              StartsWith(QueryReply(w, cons)[k], S_QISTATE)}}

\* the reply has been read up to its OK
ReplyComplete(w, cons) ==
  /\ QueryIndex(w) > 0
  /\ QueryReply(w, cons) # <<>>
  /\ QueryReply(w, cons)[Len(QueryReply(w, cons))] = S_OK

AllIds == 0..(MAX_CONNECT_ID - 1)

\* socket_open has written its AT+QIOPEN
OpenWritten ==
  /\ op.name = "socket_open"
  /\ pc \in {"open_ok", "open_ack"}

\* C3: the id socket_open puts in its AT+QIOPEN is the smallest id of [0, 12)
\* that is neither named in a +QISTATE: line read in reply to its AT+QISTATE?
\* nor in the list of open connections.
C3_SmallestFreeIdChosen ==
  OpenWritten =>
    LET taken == Listed(wlog, consumed) \cup Range(connections)
        c == loc.connect_id
    IN  /\ c \in AllIds
        /\ c \notin taken
        /\ \A d \in 0..(c - 1) : d \in taken
        /\ StartsWith(wlog[Len(wlog)], AT_QIOPEN \o Str(c) \o <<",">>)

\* id 3 is chosen while the modem lists 1 and 2 only and 0 is still open locally
C3_Witness ==
  /\ OpenWritten
  /\ loc.connect_id = 3
  /\ Listed(wlog, consumed) = {1, 2}
  /\ Range(connections) = {0, 1, 2}

\* the open connections when the ended socket_open chose its id (it appends
\* the id it returns)
OpenAtChoice ==
  IF last.kind = "int" THEN Range(last.after) \ {last.val} ELSE Range(last.after)

\* socket_open has ended after a complete listing that, with the open
\* connections, names all 12 ids
AllTaken ==
  /\ last.op.name = "socket_open"
  /\ ReplyComplete(last.wlog, last.consumed)
  /\ AllIds \subseteq (Listed(last.wlog, last.consumed) \cup OpenAtChoice)

\* the ids of the closed events that were queued when the operation was called
QueuedClosed(urcq) ==
  IF urcq = UrcsNone THEN {}
  ELSE {urcq[i][2] : i \in {k \in 1..Len(urcq) : urcq[k][1] = "closed"}}

\* AT+QICLOSE for the connections conns
CloseWrites(conns) == {Append(QICLOSE_Command(x), CR) : x \in Range(conns)}

\* a closed event of one of the connections conns is queued in urcq
ClosedQueued(urcq, conns) == QueuedClosed(urcq) \cap Range(conns) # {}

AbsentIdCall(names) ==
  /\ last.op.name \in names
  /\ ~InList(last.before, last.op.id)

\* the running operation was called with an id absent from the open connections
AbsentIdRunning(names) ==
  /\ op.name \in names
  /\ ~InList(loc.before, op.id)

SocketOps == {"socket_send", "socket_receive", "socket_close"}

RECURSIVE Flatten(_)
Flatten(cons) == IF cons = <<>> THEN <<>> ELSE Head(cons) \o Flatten(Tail(cons))

LastLine(lines) == IF lines = <<>> THEN <<>> ELSE lines[Len(lines)]

HandshakeWrites ==
  <<Append(AT, CR), Append(ATE0, CR), Append(AT_QURCCFG, CR), Append(AT_QSCLK, CR),
    Append(AT_CPIN, CR)>>

\* AT+CPIN? is in the write log w
PollWritten(w) == \E i \in 1..Len(w) : w[i] = Append(AT_CPIN, CR)

\* ERROR was read in reply to ATE0, AT+QURCCFG or AT+QSCLK=1
ErrorAtHandshake(w, cons) ==
  \E i \in 2..4 : i <= Len(w) /\ S_ERROR \in Range(cons[i + 1])

\* C8 (as claimed): with the modem's lines RDY, OK, OK, OK, OK read,
\* turn_on_or_reset returns True; and once ERROR has been read in reply to
\* ATE0, AT+QURCCFG or AT+QSCLK=1, AT+CPIN? is not written and the operation
\* does not return True.
C8_FiveRepliesSucceed ==
  /\ (last.op.name = "turn_on_or_reset"
        /\ Flatten(last.consumed) = <<S_RDY, S_OK, S_OK, S_OK, S_OK>>) =>
       last.kind = "bool" /\ last.val = 1
  /\ (op.name = "turn_on_or_reset" /\ ErrorAtHandshake(wlog, consumed)) =>
       ~PollWritten(wlog)
  /\ (last.op.name = "turn_on_or_reset"
        /\ ErrorAtHandshake(last.wlog, last.consumed)) =>
       last.kind = "bool" /\ last.val = 0

\* the handshake up to the first AT+CPIN?: the five commands in order, RDY read
\* before AT, a line OK.. read last in reply to AT, ATE0 and AT+QURCCFG, and
\* the line OK or ERROR read last in reply to AT+QSCLK=1
HandshakeDone(w, cons) ==
  /\ Len(w) >= 5
  /\ SubSeq(w, 1, 5) = HandshakeWrites
  /\ \A i \in 6..Len(w) : w[i] = Append(AT_CPIN, CR)
  /\ StartsWith(LastLine(cons[1]), S_RDY)
  /\ \A i \in 2..4 : StartsWith(LastLine(cons[i]), S_OK)
  /\ LastLine(cons[5]) \in {S_OK, S_ERROR}

\* C8 (what the code does): AT+CPIN? is written only after RDY and the replies to AT, ATE0,
\* AT+QURCCFG (OK) and AT+QSCLK=1 (OK or ERROR) have been read in that order;
\* turn_on_or_reset returns True only after OK has then been read in reply to
\* AT+CPIN? (six replies), and it returns False only when the module stays busy
\* or an AT+CPIN? gets no line before its timeout: an ERROR in reply to AT, ATE0
\* or AT+QURCCFG is skipped and the operation keeps waiting for OK.
C8_HandshakeOrder ==
  /\ (op.name = "turn_on_or_reset" /\ PollWritten(wlog)) => HandshakeDone(wlog, consumed)
  /\ last.op.name = "turn_on_or_reset" =>
       /\ last.kind = "bool"
       /\ last.val = 1 =>
            /\ HandshakeDone(last.wlog, last.consumed)
            /\ LastLine(last.consumed[Len(last.consumed)]) = S_OK
       /\ last.val = 0 =>
            \/ last.wlog = <<>>
            \/ /\ HandshakeDone(last.wlog, last.consumed)
               /\ last.consumed[Len(last.consumed)] = <<>>

\* turn_on_or_reset has returned True although the modem answered AT+QSCLK=1
\* with ERROR
C8_Witness ==
  /\ last.op.name = "turn_on_or_reset"
  /\ last.kind = "bool" /\ last.val = 1
  /\ LastLine(last.consumed[5]) = S_ERROR

\* ---- socket_open with the ids 0..2 in use ----
OpenCommand3 ==
  <<"A", "T", "+", "Q", "I", "O", "P", "E", "N", "=", "1", ",", "3", ",",
    "\"", "T", "C", "P", "\"", ",", "\"", "h", "\"", ",",
    "1", "8", "8", "3", ",", "0", ",", "0", CR>>

OpenAck3 == <<"+", "Q", "I", "O", "P", "E", "N", ":", " ", "3", ",">>

\* the position of the first line OK.. in the lines read after AT+QIOPEN
FirstOk(reply) ==
  IF \E i \in 1..Len(reply) : StartsWith(reply[i], S_OK)
    THEN CHOOSE i \in 1..Len(reply) :
           /\ StartsWith(reply[i], S_OK)
           /\ \A j \in 1..(i - 1) : ~StartsWith(reply[j], S_OK)
    ELSE 0

\* the error code of the acknowledgement for id 3 read after that OK, <<>> when
\* none was read
AckCode3(reply) ==
  IF FirstOk(reply) > 0 /\ FirstOk(reply) < Len(reply)
       /\ StartsWith(LastLine(reply), OpenAck3)
    THEN FirstField(SubSeq(LastLine(reply), Len(OpenAck3) + 1, Len(LastLine(reply))), ",")
    ELSE <<>>

\* socket_open(h, 1883, SOCKET_TCP) has ended after a complete listing that,
\* with the open connections, names exactly the ids 0..2
ThreeInUse ==
  /\ last.op.name = "socket_open"
  /\ last.op.stype = SOCKET_TCP
  /\ ReplyComplete(last.wlog, last.consumed)
  /\ Listed(last.wlog, last.consumed) \cup OpenAtChoice = {0, 1, 2}

C10_SecondCloseIsNoOp ==
  /\ (last.op.name = "socket_close" /\ last.kind = "bool" /\ last.val = 1) =>
       ~InList(last.after, last.op.id)
  /\ (last.op.name = "socket_close" /\ last.prevclosed = last.op.id) =>
       /\ last.kind = "bool" /\ last.val = 0
       /\ last.wlog = <<>>
       /\ last.after = last.before

\* the second of two socket_close calls on the same id has returned False
C10_Witness ==
  /\ last.op.name = "socket_close"
  /\ last.prevclosed = last.op.id
  /\ last.kind = "bool" /\ last.val = 0
  /\ last.wlog = <<>>

\* ---- socket_close of an open id ----
\* the ended socket_close was called with an id that was open
OpenIdClosed ==
  /\ last.op.name = "socket_close"
  /\ InList(last.before, last.op.id)

\* C11: a socket_close called with an open id has, when it returns, written
\* AT+QICLOSE=<id> once, returned True and removed the id from the open
\* connections, whether it read OK or its wait for OK ended on the timeout.
C11_CloseAlwaysReleases ==
  OpenIdClosed =>
    /\ last.kind = "bool" /\ last.val = 1
    /\ last.wlog = <<Append(QICLOSE_Command(last.op.id), CR)>>
    /\ ~InList(last.after, last.op.id)
    /\ Range(last.after) = Range(last.before) \ {last.op.id}
    /\ \/ last.timedout = {"close_ok"}
       \/ last.timedout = {} /\ StartsWith(LastLine(last.consumed[2]), S_OK)

\* socket_close of an open id has returned after its wait for OK timed out
\* without a line from the modem
C11_Witness ==
  /\ OpenIdClosed
  /\ last.timedout = {"close_ok"}
  /\ last.consumed[2] = <<>>
  /\ ~InList(last.after, last.op.id)

\* ---- the list execute_command returns ----
\* the list execute_command has built so far (memoryviews into its buffer)
ResponsesSoFar ==
  [i \in 1..Len(wt.responses) |-> ResponseBytes(wt.buf, wt.responses[i])]

Matches(line, expected) == line \in Range(expected)

\* a return e of execute_command against the lines cons the operation has been
\* handed by read_response_into after each of its writes
ExecListed(e, cons) ==
  e.seg > 0 =>
    /\ e.responses = cons[e.seg]
    /\ e.ok => /\ e.responses # <<>>
               /\ Matches(LastLine(e.responses), e.expected)
               /\ \A i \in 1..(Len(e.responses) - 1) :
                     ~Matches(e.responses[i], e.expected)
    /\ ~e.ok => \A i \in 1..Len(e.responses) : ~Matches(e.responses[i], e.expected)

\* C12: the list execute_command returns is, in the order read, the lines
\* read_response_into handed over since the command was written (every line
\* but those queued as closed events); when it returns True the last element
\* is the only one that is in the expected list, when it returns False none
\* is; and while it waits no line it has listed is in the expected list.
C12_ResponsesInArrivalOrder ==
  /\ wt.prim = "execute_command" =>
       /\ ResponsesSoFar = consumed[Len(consumed)]
       /\ \A i \in 1..Len(wt.responses) : ~Matches(ResponsesSoFar[i], wt.expected)
  /\ ExecListed(loc.exec, consumed)
  /\ ExecListed(last.exec, last.consumed)

\* socket_open was returned the three +QISTATE: lines and OK, in that order
C12_Witness ==
  /\ last.op.name = "socket_open"
  /\ last.exec.ok
  /\ Len(last.exec.responses) = 4
  /\ \A i \in 1..3 :
        StartsWith(last.exec.responses[i], S_QISTATE \o Str(i - 1) \o <<",">>)
  /\ last.exec.responses[4] = S_OK

\* ---- what an operation does when a wait ends on its timeout ----
\* the waits other than those of the URC drain
OwnTimeouts(T) == T \ {"drain"}

ReturnedFalse == last.kind = "bool" /\ last.val = 0

RaisedError(message) == last.kind = "raise" /\ last.exc = message

BadLengthRead(w, cons) ==
  /\ w # <<>> /\ StartsWith(w[Len(w)], AT_QIRD)
  /\ LET reply == cons[Len(w) + 1]
         hits == {i \in 1..Len(reply) : StartsWith(reply[i], S_QIRD)}
     IN  /\ hits # {}
         /\ LET line == reply[CHOOSE i \in hits : \A j \in hits : i <= j]
            IN  ParseInt(SubSeq(line, 8, Len(line))) = None

\* C14 (as claimed): a socket_receive that read a +QIRD: line with an
\* unparsable length, or that read fewer raw bytes than the length announced,
\* has raised an exception.
C14_ProtocolViolationRaised ==
  (last.op.name = "socket_receive" /\ (last.short \/ BadLengthRead(last.wlog, last.consumed))) =>
    last.kind = "raise"

\* what the code does: the unparsable length raises ValueError, the short read
\* returns None
C14_ShortReadReturnsNone ==
  last.op.name = "socket_receive" =>
    /\ BadLengthRead(last.wlog, last.consumed) => RaisedError("ValueError")
    /\ last.short => last.kind = "None"

\* ---- activate: the registration poll ----
\* the i-th query of the poll and the prefix of its status line
PollCommand(i) == IF i % 2 = 1 THEN Append(AT_CGREG, CR) ELSE Append(AT_CEREG, CR)

PollPrefix(i) == IF i % 2 = 1 THEN S_CGREG ELSE S_CEREG

\* the number of queries at the head of a write log
Polls(w) == Cardinality({n \in 1..Len(w) : \A i \in 1..n : w[i] = PollCommand(i)})

ConfigWrites ==
  <<Append(<<"A", "T", "+", "Q", "I", "C", "S", "G", "P", "=", "1", ",", "1", ",",
             "\"", "a", "\"", ",", "\"", "u", "\"", ",", "\"", "p", "\"", ",", "1">>, CR),
    Append(AT_QIACT, CR), Append(AT_QIACT_Q, CR)>>

\* the reply read to a query ended with OK and has a status line
HasStatus(reply, prefix) ==
  /\ LastLine(reply) = S_OK
  /\ \E i \in 1..Len(reply) : StartsWith(reply[i], prefix)

\* the <stat> of the first status line <prefix> <n>,<stat>[,..] of the reply
PollStat(reply, prefix) ==
  LET i == CHOOSE k \in 1..Len(reply) :
             /\ StartsWith(reply[k], prefix)
             /\ \A j \in 1..(k - 1) : ~StartsWith(reply[j], prefix)
      rest == SubSeq(reply[i], IndexOf(reply[i], ",") + 1, Len(reply[i]))
  IN  IF IndexOf(rest, ",") = 0 THEN rest ELSE SubSeq(rest, 1, IndexOf(rest, ",") - 1)

RegisteredStats == {<<"1">>, <<"5">>}
InvalidStats == {<<"0">>, <<"4">>}

\* the writes w of an activate and the lines cons read after each of them:
\* AT+CGREG? and AT+CEREG? in turn, each but the last answered with a status
\* other than 0, 1, 4, 5, then at most AT+QICSGP, AT+QIACT=1, AT+QIACT?, which
\* follow only a query answered with status 1 or 5
PollThenConfigure(w, cons) ==
  LET P == Polls(w)
  IN  /\ P >= 1
      /\ Len(w) - P <= 3
      /\ SubSeq(w, P + 1, Len(w)) = SubSeq(ConfigWrites, 1, Len(w) - P)
      /\ \A i \in 1..(P - 1) :
            /\ HasStatus(cons[i + 1], PollPrefix(i))
            /\ PollStat(cons[i + 1], PollPrefix(i)) \notin RegisteredStats \cup InvalidStats
      /\ Len(w) > P =>
            /\ HasStatus(cons[P + 1], PollPrefix(P))
            /\ PollStat(cons[P + 1], PollPrefix(P)) \in RegisteredStats

\* C15: activate writes AT+CGREG? and AT+CEREG? in turn for as long as the
\* status read is none of 0, 1, 4, 5; it raises LTEModuleError('Invalid
\* registration status.') on the first status 0 or 4 without writing more; it
\* writes AT+QICSGP right after the first status 1 or 5 and never before one;
\* it ends without a configuration command only by raising.
C15_PollUntilRegistered ==
  /\ op.name = "activate" =>
       /\ PollThenConfigure(wlog, consumed)
       /\ Len(wlog) = Polls(wlog) => LastLine(consumed[Len(wlog) + 1]) # S_OK
  /\ last.op.name = "activate" =>
       LET P == Polls(last.wlog)
           reply == last.consumed[P + 1]
       IN  /\ PollThenConfigure(last.wlog, last.consumed)
           /\ Len(last.wlog) > P => last.kind = "bool"
           /\ Len(last.wlog) = P =>
                IF HasStatus(reply, PollPrefix(P))
                  THEN /\ PollStat(reply, PollPrefix(P)) \in InvalidStats
                       /\ RaisedError("LTEModuleError: Invalid registration status.")
                  ELSE RaisedError("LTEModuleError: Failed to get registration status.")

\* activate has returned True after +CGREG: 0,2 then +CEREG: 0,2 then a
\* registered status in reply to its second AT+CGREG?
C15_Witness ==
  /\ last.op.name = "activate"
  /\ last.kind = "bool" /\ last.val = 1
  /\ Polls(last.wlog) = 3
  /\ Len(last.wlog) = 6
  /\ PollStat(last.consumed[4], S_CGREG) \in RegisteredStats

\* activate has raised on status 4 in reply to AT+CEREG?
C15_WitnessInvalid ==
  /\ last.op.name = "activate"
  /\ Polls(last.wlog) = 2 /\ Len(last.wlog) = 2
  /\ HasStatus(last.consumed[3], S_CEREG)
  /\ PollStat(last.consumed[3], S_CEREG) = <<"4">>
  /\ RaisedError("LTEModuleError: Invalid registration status.")

\* ---- turn_on_or_reset: the SIM poll ----
\* the attempts of the SIM poll in a write log (the writes after the four
\* commands of the handshake)
PollAttempts(w) == {i \in 5..Len(w) : w[i] = Append(AT_CPIN, CR)}

\* the attempt was answered but did not end with OK
NotReady(reply) == reply # <<>> /\ S_OK \notin Range(reply)

\* C16: every attempt of the SIM poll that is followed by another attempt read
\* at least one line and no OK; turn_on_or_reset returns True at the first
\* attempt that reads OK, returns False at the first attempt that reads no
\* line before its timeout, and does not end on an attempt that read lines
\* but no OK.
C16_SimPollRetries ==
  /\ (op.name = "turn_on_or_reset" /\ PollWritten(wlog)) =>
       /\ \A i \in PollAttempts(wlog) \ {Len(wlog)} : NotReady(consumed[i + 1])
       /\ S_OK \notin Range(consumed[Len(wlog) + 1])
  /\ (last.op.name = "turn_on_or_reset" /\ PollWritten(last.wlog)) =>
       LET n == Len(last.wlog)
           reply == last.consumed[n + 1]
       IN  /\ \A i \in PollAttempts(last.wlog) \ {n} : NotReady(last.consumed[i + 1])
           /\ last.kind = "bool"
           /\ last.val = 1 <=> LastLine(reply) = S_OK
           /\ last.val = 0 <=> reply = <<>>

\* turn_on_or_reset has returned True at its second attempt, the first having
\* been answered with +CME ERROR: 10 only
C16_Witness ==
  /\ last.op.name = "turn_on_or_reset"
  /\ last.kind = "bool" /\ last.val = 1
  /\ Len(last.wlog) = 6
  /\ last.consumed[6] = <<S_CME_ERROR>>
  /\ "hs_cpin" \in last.timedout

\* ---- the pending URCs at the first command of an operation ----
\* this step writes the first command of an operation named in names that is
\* not an AT+QICLOSE of __process_remaining_urcs
FirstCommand(names) ==
  /\ op'.name \in names
  /\ pc \in {"idle", "drain"}
  /\ pc' \notin {"idle", "drain"}
  /\ wlog' # <<>>

\* after this step the queue is empty and no id that had a closed event
\* queued when the operation was called is open
DrainedNext ==
  /\ urcs' = <<>>
  /\ \A id \in QueuedClosed(loc'.urcs) : ~InList(connections', id)

\* C17 (as claimed): when socket_open, socket_send, socket_receive,
\* socket_close or activate writes its first command, the queue of pending URCs
\* is empty and every id that had a closed event queued is closed.
C17_DrainedBeforeFirstCommand ==
  [][FirstCommand({"socket_open", "socket_send", "socket_receive", "socket_close",
                   "activate"}) => DrainedNext]_vars

\* C17 (amended): that holds when socket_open, socket_send or socket_receive
\* writes its first command; socket_close and activate write theirs with the
\* queue as it was when they were called, and activate leaves the open
\* connections as they were.
C17_DrainedBeforeOpenSendReceive ==
  [][/\ FirstCommand({"socket_open", "socket_send", "socket_receive"}) => DrainedNext
     /\ FirstCommand({"socket_close", "activate"}) =>
          /\ urcs' = urcs
          /\ Len(wlog') = 1
          /\ op'.name = "activate" => connections' = connections]_vars

\* socket_open has written AT+QISTATE? after the AT+QICLOSE of a connection
\* whose closed event was queued, and the queue is empty
C17_Witness ==
  /\ op.name = "socket_open" /\ pc = "open_state"
  /\ Len(wlog) = 2
  /\ StartsWith(wlog[1], AT_QICLOSE)
  /\ ClosedQueued(loc.urcs, loc.before)
  /\ urcs = <<>>
  /\ Len(connections) < Len(loc.before)

\* ---- the open connections and the modem's listing ----
\* turn_on_or_reset has returned True and nothing has been started since
ResetDone ==
  /\ pc = "idle"
  /\ last.op.name = "turn_on_or_reset"
  /\ last.kind = "bool" /\ last.val = 1

\* C19 (as claimed): every open connection is one the modem lists: when
\* socket_open has read the whole reply to its AT+QISTATE?, every id in the
\* list of open connections is named in a +QISTATE: line of it, and once
\* turn_on_or_reset has returned True every id in the list is live in the
\* modem.
C19_LocalSubsetOfListing ==
  /\ (OpenWritten /\ ReplyComplete(wlog, consumed)) =>
       Range(connections) \subseteq Listed(wlog, consumed)
  /\ (ResetDone /\ ~dev.boot) => Range(connections) \subseteq dev.live

\* turn_on_or_reset leaves the list of open connections as it found it
C19_ResetKeepsConnections ==
  last.op.name = "turn_on_or_reset" => last.after = last.before

\* the modem has been reset with connections open: it has none, the list
\* still has them
C19_StaleAfterReset ==
  ResetDone /\ ~dev.boot /\ dev.live = {} /\ connections # <<>>

\* ---- commands in flight (checked under SpecTasks) ----
\* the coroutine c has written a command and waits for its response
InFlight(c) ==
  /\ c.pc \notin {"idle", "wait_busy", "recv_read"}
  /\ c.wlog # <<>>

\* the bytes "> " are in the receive FIFO, after the index bytes already matched
PromptSeen ==
  \E i \in 1..Len(rx) :
    /\ rx[i] = " "
    /\ \/ i > 1 /\ rx[i - 1] = ">"
       \/ i = 1 /\ wt.index = 1

\* this step hands the running wait a line it expects
ExpectedLineRead ==
  LET k == Len(consumed)
  IN  /\ Len(consumed') >= k
      /\ Len(consumed'[k]) = Len(consumed[k]) + 1
      /\ LET line == consumed'[k][Len(consumed'[k])]
         IN  IF wt.prim = "wait_response" THEN StartsWith(line, wt.expected[1])
             ELSE Matches(line, wt.expected)

\* this step ends the wait of the running coroutine: the expected line, the
\* prompt, or no byte and a timeout that is not None
WaitReturns ==
  \/ wt.prim \in {"wait_response", "execute_command"} /\ ExpectedLineRead
  \/ wt.prim = "wait_prompt" /\ PromptSeen
  \/ rx = <<>> /\ wt.timeout # None /\ pc \in loc'.timedout

\* C18 (as claimed): at most one command is in flight, whether one task or
\* several call the engine: no two coroutines have each written a command and
\* wait for its response.
C18_AtMostOneInFlight == ~(InFlight(Running) /\ InFlight(other))

\* C18 (amended): a coroutine that waits for the response to a command writes
\* to the UART only in the step in which that wait returns; nothing keeps a
\* second task from writing meanwhile.
C18_WritesAfterWaitReturns ==
  [][(Len(tx') > Len(tx) /\ InFlight(Running)) => WaitReturns]_vars

\* socket_send has written its payload after the prompt while the other task
\* is inside an operation
C18_Witness ==
  /\ op.name = "socket_send" /\ pc = "send_ok"
  /\ Len(wlog) = 2
  /\ other.pc # "idle"

\* ---- cancellation (checked under SpecCancel) ----
\* C20 (as claimed): a cancellation while the task is suspended in a wait is
\* not propagated (the operation does not end with CancelledError), and the
\* operation does not wait again after it: an operation in which a wait was
\* cancelled is not suspended in a wait.
C20_CancelReturnsFailure ==
  /\ last.cancelled # {} => ~(last.kind = "raise" /\ last.exc = "CancelledError")
  /\ loc.cancelled # {} => ~Waiting

\* socket_send was cancelled in wait_prompt and ended with CancelledError
C20_PromptCancelPropagates ==
  /\ last.op.name = "socket_send"
  /\ last.cancelled = {"send_prompt"}
  /\ last.kind = "raise" /\ last.exc = "CancelledError"

\* turn_on_or_reset waits for RDY again after the wait for RDY was cancelled
C20_WaitsAgain ==
  /\ op.name = "turn_on_or_reset" /\ pc = "wait_rdy"
  /\ loc.cancelled = {"wait_rdy"}
  /\ loc.trial = 1

\* ---- socket_send: command, prompt, payload, SEND OK ----
\* this step of socket_send writes the payload
PayloadWrite ==
  /\ op.name = "socket_send" /\ op' = op
  /\ wlog' = Append(wlog, Payload(op.length))

\* the writes w hold the payload of `length` bytes once, as the last write,
\* directly after AT+QISEND=<id>,<length>
SentInOrder(w, id, length) ==
  /\ Len(w) >= 2
  /\ w[Len(w)] = Payload(length)
  /\ w[Len(w) - 1] = Append(QISEND_Command(id, length), CR)
  /\ \A i \in 1..(Len(w) - 1) : w[i] # Payload(length)

\* C21: socket_send writes its payload only after AT+QISEND=<id>,<length> and
\* only in a step in which the prompt "> " is received; it returns True for a
\* length in 1..1460 only after the payload and a line SEND OK read after it;
\* when the wait for the prompt times out it returns False and has written no
\* payload.
C21_SendCommandPromptPayload ==
  [][/\ PayloadWrite =>
          /\ PromptSeen
          /\ 0 < op.length /\ op.length <= MAX_SOCKET_DATA_SIZE
          /\ wlog # <<>>
          /\ wlog[Len(wlog)] = Append(QISEND_Command(op.id, op.length), CR)
     /\ (last'.op.name = "socket_send" /\ last'.op.length > 0) =>
          LET w == last'.wlog
              id == last'.op.id
              length == last'.op.length
          IN  /\ (last'.kind = "bool" /\ last'.val = 1) =>
                   /\ SentInOrder(w, id, length)
                   /\ last'.consumed[Len(w) + 1] # <<>>
                   /\ StartsWith(LastLine(last'.consumed[Len(w) + 1]), S_SEND_OK)
              /\ "send_prompt" \in last'.timedout =>
                   /\ last'.kind = "bool" /\ last'.val = 0
                   /\ \A i \in 1..Len(w) : w[i] # Payload(length)]_vars

\* socket_send has returned True after AT+QISEND=0,2, the prompt, 2 bytes and
\* SEND OK
C21_Witness ==
  /\ last.op.name = "socket_send" /\ last.op.length = 2
  /\ last.kind = "bool" /\ last.val = 1
  /\ SentInOrder(last.wlog, last.op.id, 2)

\* socket_send has returned False after its wait for the prompt timed out
C21_WitnessNoPrompt ==
  /\ last.op.name = "socket_send"
  /\ last.timedout = {"send_prompt"}
  /\ last.kind = "bool" /\ last.val = 0

\* ---- socket_receive: the announced length, the raw bytes, OK ----
\* the lines read after the AT+QIRD of a socket_receive that begin with +QIRD:
QirdLines(w, cons) ==
  IF w # <<>> /\ StartsWith(w[Len(w)], AT_QIRD)
    THEN SelectSeq(cons[Len(w) + 1], LAMBDA line : StartsWith(line, S_QIRD))
    ELSE <<>>

\* the length announced by the first of them (None when it is no number)
Announced(w, cons) ==
  LET line == QirdLines(w, cons)[1]
  IN  ParseInt(SubSeq(line, 8, Len(line)))

\* the ended operation returned n after a line OK, or None after a wait that
\* timed out
ReturnedAfterOk(n) ==
  \/ /\ last.kind = "int" /\ last.val = n
     /\ LastLine(last.consumed[Len(last.wlog) + 1]) = S_OK
  \/ last.kind = "None" /\ last.timedout # {}

\* C22 (as claimed): a socket_receive that read the line +QIRD: <n> has
\* read no raw byte and returned 0 after OK when n = 0, and has read n raw
\* bytes and returned n after OK when n > 0, or has returned None after a
\* wait that timed out.
C22_ReceiveReadsAnnounced ==
  (/\ last.op.name = "socket_receive"
   /\ QirdLines(last.wlog, last.consumed) # <<>>
   /\ Announced(last.wlog, last.consumed) # None) =>
     /\ ~last.short
     /\ ReturnedAfterOk(Announced(last.wlog, last.consumed))

\* what the code does when fewer than n bytes are in the FIFO: it returns
\* None at once, without a timeout
C22_ShortReadNoTimeout ==
  /\ last.op.name = "socket_receive"
  /\ QirdLines(last.wlog, last.consumed) # <<>>
  /\ Announced(last.wlog, last.consumed) = 2
  /\ last.short /\ last.kind = "None" /\ last.timedout = {}

\* ---- wait_prompt against a substring search (checked under SpecPrompt) ----
\* the bytes wait_prompt has read: those of the stream that are neither still
\* to come nor in the FIFO
PromptReceived == SubSeq(f_stream, 1, Len(f_stream) - Len(dev.out) - Len(rx))

\* reference: literal is a contiguous part of bytes
Contains(bytes, literal) ==
  \E i \in 1..(Len(bytes) - Len(literal) + 1) :
    SubSeq(bytes, i, i + Len(literal) - 1) = literal

\* wait_prompt returned True: socket_send has written its payload
PromptTrue == op.name = "socket_send" /\ pc = "send_ok"

\* wait_prompt returned False: socket_send returned False from it
PromptFalse ==
  /\ last.op.name = "socket_send" /\ last.timedout = {"send_prompt"}
  /\ last.kind = "bool" /\ last.val = 0

\* C23 (as claimed): wait_prompt returns True exactly when the bytes it
\* received hold the literal "> " as a contiguous part: True only with the
\* literal received, False only without it.
C23_PromptIffSubstring ==
  /\ PromptTrue => Contains(PromptReceived, S_PROMPT)
  /\ PromptFalse => ~Contains(PromptReceived, S_PROMPT)

\* what the code does: True only on bytes that hold the literal and end with it
C23_PromptTrueOnlyOnLiteral ==
  PromptTrue =>
    /\ Contains(PromptReceived, S_PROMPT)
    /\ SubSeq(PromptReceived, Len(PromptReceived) - 1, Len(PromptReceived)) = S_PROMPT

\* the stream ">> " has been read whole and wait_prompt returned False
C23_RepeatedPrefixMissed ==
  /\ PromptFalse
  /\ f_stream = <<">", ">", " ">>
  /\ PromptReceived = f_stream

\* ---- turn_on_or_reset and a module that never sends RDY (SpecNoBoot) ----
\* C24 (as claimed): turn_on_or_reset eventually returns although RDY never
\* comes.
C24_EventuallyReturns == (op.name = "turn_on_or_reset") ~> (pc = "idle")

\* the part that is bounded: wait_busy polls the pin at most WaitBusyTrials
\* times, and the wait for RDY is entered at most 15 times
C24_BusyWaitBounded ==
  op.name = "turn_on_or_reset" =>
    /\ pc = "wait_busy" => loc.trial < WaitBusyTrials
    /\ pc = "wait_rdy" => loc.trial < 15

\* wait_response(b'RDY') has no timeout: with the FIFO empty nothing ends it
C24_WaitsForRdyWithoutTimeout ==
  /\ op.name = "turn_on_or_reset" /\ pc = "wait_rdy"
  /\ wt.timeout = None /\ rx = <<>> /\ loc.trial = 0

\* ---- the maximum payload ----
\* no write of w is an AT+QISEND, an AT+QIRD or a payload
NoDataWrites(w) ==
  \A i \in 1..Len(w) :
    /\ ~StartsWith(w[i], AT_QISEND)
    /\ ~StartsWith(w[i], AT_QIRD)
    /\ w[i][Len(w[i])] = CR

TooLong(o) ==
  /\ o.name \in {"socket_send", "socket_receive"}
  /\ o.length > MAX_SOCKET_DATA_SIZE

\* C25: socket_send and socket_receive called with a length above 1460 write
\* no AT+QISEND, no AT+QIRD and no payload; called with an id that is open,
\* they end with AssertionError, or with False when a queued closed event had
\* the id closed first.
C25_MaxPayloadEnforced ==
  /\ TooLong(op) => NoDataWrites(wlog)
  /\ (TooLong(last.op) /\ InList(last.before, last.op.id)) =>
       /\ NoDataWrites(last.wlog)
       /\ \/ last.kind = "raise" /\ last.exc = "AssertionError"
          \/ /\ last.kind = "bool" /\ last.val = 0
             /\ ~InList(last.after, last.op.id)

\* socket_send of 1461 bytes on open connection 0 has raised AssertionError
\* and written nothing
C25_Witness ==
  /\ last.op.name = "socket_send" /\ last.op.length = MAX_SOCKET_DATA_SIZE + 1
  /\ InList(last.before, last.op.id)
  /\ last.kind = "raise" /\ last.exc = "AssertionError"
  /\ last.wlog = <<>>

\* ---- the lines the framer returns (checked under SpecFramer) ----
\* the call has returned a length
FReturned == f_pc = "ret" /\ f_res # None

\* the line returned: buffer[offset : offset + length]
FLine == BufSlice(f_st.buf, f_cap, f_off, f_off + f_res)

\* C26 (as claimed): every line the framer returns has at least one byte and
\* holds neither CR nor LF.
C26_LineHasNoDelimiter ==
  FReturned =>
    /\ f_res >= 1
    /\ \A i \in 1..Len(FLine) : FLine[i] \notin {CR, LF}

\* what the code does: at least one byte, no CR; an LF inside the body is
\* stored like any other byte
C26_LineNonEmptyNoCr ==
  FReturned =>
    /\ f_res >= 1
    /\ Len(FLine) = f_res
    /\ \A i \in 1..Len(FLine) : FLine[i] # CR

\* a line that holds an LF has been returned
C26_LineWithLf ==
  /\ FReturned
  /\ \E i \in 1..Len(FLine) : FLine[i] = LF

\* ---- the deadline of execute_command (checked under SpecExec) ----
\* the timeout has elapsed since the command was written (at time 0)
DeadlinePassed == f_timeout # None /\ f_now >= f_timeout

\* C27 (as claimed): once the timeout has elapsed since the command was
\* written, execute_command returns failure as soon as it finds no byte to
\* read: it does not go on waiting.
C27_FailsAtCommandDeadline ==
  [][(/\ pc = "execute_command" /\ f_pc = "run" /\ f_rx = <<>>
      /\ DeadlinePassed
      /\ f_pc' # f_pc) => (f_pc' = "ret" /\ f_res' = None)]_vars

\* what the code does: it returns failure when the timeout has elapsed since
\* the running read_response_into was called
C27_FailsAtLineDeadline ==
  [][(/\ pc = "execute_command" /\ f_pc = "run" /\ f_rx = <<>>
      /\ f_pc' # f_pc) =>
       IF Expired THEN f_pc' = "ret" /\ f_res' = None ELSE f_pc' = "sleep"]_vars

\* a line that is not in the list arrived before the deadline and
\* execute_command sleeps at the deadline
C27_WaitsPastDeadline ==
  /\ pc = "execute_command" /\ f_pc = "sleep"
  /\ Len(wt.responses) = 1 /\ f_start = 1
  /\ f_now = 2 /\ f_timeout = 2 /\ f_rx = <<>>

\* ---- execute_command_single_response (checked under SpecExec) ----
\* the line has the prefix; with no prefix, it is not empty
HasPrefix(line, starts_with) ==
  IF starts_with = <<>> THEN Len(line) > 0 ELSE StartsWith(line, starts_with)

\* the lines of the stream, in the order they arrive
ArrivedLines == CHOOSE lines \in SeqsUpTo(ExecLines, MaxExecLines) : f_stream = WireOf(lines)

\* C28: execute_command_single_response returns None when execute_command
\* failed; when it succeeded, with rs the lines that arrived up to the
\* matching one, it returns the first line of rs that has the prefix (the
\* first non-empty one when there is no prefix), and None when rs has none.
C28_FirstLineWithPrefix ==
  last.op.name = "execute_command_single_response" =>
    LET rs == last.exec.responses
        hits == {i \in 1..Len(rs) : HasPrefix(rs[i], last.prefix)}
    IN  /\ Len(rs) <= Len(ArrivedLines)
        /\ rs = SubSeq(ArrivedLines, 1, Len(rs))
        /\ ~last.exec.ok => last.line = <<>>
        /\ (last.exec.ok /\ hits = {}) => last.line = <<>>
        /\ (last.exec.ok /\ hits # {}) =>
             \E i \in hits : /\ last.line = rs[i]
                             /\ \A j \in hits : i <= j

\* after the lines a and OK the call with prefix O has returned OK, the second
\* line
C28_Witness ==
  /\ last.op.name = "execute_command_single_response"
  /\ last.exec.ok
  /\ last.exec.responses = << <<"a">>, S_OK >>
  /\ last.prefix = <<"O">>
  /\ last.line = S_OK

\* the call with no prefix has returned the first line, a
C28_WitnessNoPrefix ==
  /\ last.op.name = "execute_command_single_response"
  /\ last.exec.ok
  /\ last.exec.responses = << <<"a">>, S_OK >>
  /\ last.prefix = <<>>
  /\ last.line = <<"a">>

\* ---- activate: the configuration commands ----
\* the wait that followed a write read an OK as its last line
Succeeded(reply) == reply # <<>> /\ StartsWith(LastLine(reply), S_OK)

\* the writes w after the P queries of the poll: AT+QICSGP first, AT+QIACT=1
\* second, each write but the first after an OK to the one before it
ConfiguredInOrder(w, cons) ==
  LET P == Polls(w)
  IN  /\ Len(w) > P => w[P + 1] = ConfigWrites[1]
      /\ Len(w) > P + 1 => w[P + 2] = ConfigWrites[2]
      /\ \A j \in (P + 1)..(Len(w) - 1) : Succeeded(cons[j + 1])

\* C29: after the poll activate writes AT+QICSGP and then AT+QIACT=1, each
\* command after the first only once the one before has been answered with OK;
\* it returns True only if both were answered with OK, and when a command is
\* not answered with OK it returns False and that command is its last write.
C29_ConfigureThenActivate ==
  /\ op.name = "activate" => ConfiguredInOrder(wlog, consumed)
  /\ (last.op.name = "activate" /\ Len(last.wlog) > Polls(last.wlog)) =>
       LET w == last.wlog
           P == Polls(w)
       IN  /\ ConfiguredInOrder(w, last.consumed)
           /\ last.kind = "bool"
           /\ last.val = 1 =>
                /\ Len(w) >= P + 2
                /\ Succeeded(last.consumed[P + 2])
                /\ Succeeded(last.consumed[P + 3])
           /\ ~Succeeded(last.consumed[Len(w) + 1]) => last.val = 0

\* activate has returned False after AT+QICSGP was not answered in time, and
\* has not written AT+QIACT=1
C29_Witness ==
  /\ last.op.name = "activate"
  /\ last.timedout = {"act_qicsgp"}
  /\ last.kind = "bool" /\ last.val = 0
  /\ Len(last.wlog) = Polls(last.wlog) + 1
  /\ last.wlog[Len(last.wlog)] = ConfigWrites[1]

\* activate has returned True after OK to AT+QICSGP, AT+QIACT=1 and AT+QIACT?
C29_WitnessActivated ==
  /\ last.op.name = "activate"
  /\ last.kind = "bool" /\ last.val = 1
  /\ Polls(last.wlog) = 1
  /\ SubSeq(last.wlog, 2, 4) = ConfigWrites

\* ---- a frame longer than the space left in the buffer ----
\* the stream is CR LF CR LF body CR LF with a CR-free body longer than the
\* space from offset to the end of the buffer
OverflowCase ==
  /\ Len(f_stream) >= 7
  /\ f_stream = Framed(FBody)
  /\ Len(FBody) > f_cap - f_off
  /\ \A i \in 1..Len(FBody) : FBody[i] # CR

\* the call stored the first bytes of the body up to the end of the buffer and
\* nothing past it, read the stream to its end and returned the count
Truncated ==
  /\ f_res = f_cap - f_off
  /\ BufSlice(f_st.buf, f_cap, f_off, f_cap) = SubSeq(FBody, 1, f_cap - f_off)
  /\ Len(f_st.buf) <= f_cap
  /\ f_rx = <<>> /\ f_script = <<>>

\* C30: fed a frame whose body is longer than the space left in the buffer,
\* the call does not raise, never stores a byte at or past the end of the
\* buffer, and when it returns a length it has stored the bytes that fit, read
\* the stream up to the closing CR LF and returns the number of bytes stored.
C30_OverflowTruncated ==
  OverflowCase =>
    /\ f_pc # "raise"
    /\ Len(f_st.buf) <= f_cap
    /\ (f_pc = "ret" /\ f_res # None) => Truncated

\* the same when at least one byte of space is left (offset < len(buffer))
C30_OverflowTruncatedWithSpace ==
  (OverflowCase /\ f_off < f_cap) =>
    /\ f_pc # "raise"
    /\ Len(f_st.buf) <= f_cap
    /\ (f_pc = "ret" /\ f_res # None) => Truncated

\* a body longer than the space left has been cut to the space left
C30_TruncatedReturned ==
  /\ OverflowCase
  /\ f_off = 1 /\ f_cap = 2 /\ Len(FBody) = 3
  /\ f_pc = "ret" /\ f_res = 1
  /\ Truncated

\* with no space left (offset = len(buffer)) the first byte of the body raises
\* IndexError
C30_RaisesWhenNoSpace ==
  /\ OverflowCase
  /\ f_off = f_cap
  /\ f_pc = "raise"
  /\ f_st.response_length = 0

\* ---- late replies ----
\* C31: a line that ends a wait successfully was sent by the modem in reply to
\* the command the wait follows, so the modem has taken that command (and
\* every earlier write) from the UART by the time the line is read.
C31_SatisfyingLineIsReply ==
  [][(wlog # <<>> /\ wt.prim \in {"wait_response", "execute_command"}
        /\ ExpectedLineRead) => tx = <<>>]_vars

\* the first operation timed out before the modem answered; socket_close(3)
\* then took the late OK for the answer to AT+QICLOSE=3 and removed id 3 while
\* the modem has not yet taken the command and still holds connection 3
C31_LateReplyTaken ==
  /\ pc = "idle" /\ nops = 2
  /\ last.op.name = "socket_close" /\ last.op.id = 3
  /\ last.kind = "bool" /\ last.val = 1
  /\ last.timedout = {}
  /\ tx # <<>> /\ CommandOf(tx[Len(tx)]) = QICLOSE_Command(3)
  /\ 3 \in dev.live /\ ~InList(connections, 3)

\* ---- a closed event and a connection opened under the same id ----
\* socket_open has just returned connect id X
Opened(X) ==
  /\ pc = "idle"
  /\ last.op.name = "socket_open" /\ last.kind = "int" /\ last.val = X

\* C32: a closed event queued while socket_open waits does not make the
\* connection that socket_open then opens under the same id count as
\* disconnected: when socket_open has returned X and the modem holds
\* connection X open, socket_is_connected(X) is true.
C32_NewConnectionConnected ==
  \A X \in 0..MAX_CONNECT_ID :
    (Opened(X) /\ X \in dev.live) => socket_is_connected(connections, urcs, X)

\* socket_open returned id 0 with ("closed", 0) in the queue: the event was
\* queued during its wait for the listing, the connection is open in the modem
C32_StaleEventOnNewConnection ==
  /\ Opened(0)
  /\ 0 \in dev.live /\ InList(connections, 0)
  /\ urcs = << <<"closed", 0>> >>
  /\ last.urcs = <<>>

\* ---- the drain of the queue (checked under SpecDrain) ----
\* the number of times AT+QICLOSE=<id> was written
ClosesWritten(w, id) ==
  Cardinality({i \in 1..Len(w) : w[i] = Append(QICLOSE_Command(id), CR)})

\* this step takes events out of the queue
QueueShrinks ==
  /\ urcs # <<>> /\ urcs # UrcsNone
  /\ Len(urcs') < Len(urcs) \/ SubSeq(urcs', 1, Len(urcs)) # urcs

\* C33: events leave the queue only when the drain empties it, and by then
\* every queued closed event, whether queued at the call or appended while the
\* drain waited for the reply to one of its AT+QICLOSE, has been handled
\* exactly once: one AT+QICLOSE=<id> was written for each queued id that was
\* open at the call and none for any other, and no queued id is left in the
\* list of open connections.
C33_DrainHandlesEveryEventOnce ==
  [][QueueShrinks =>
       LET before == IF pc' = "idle" THEN last'.before ELSE loc'.before
       IN  /\ urcs' = <<>>
           /\ \A id \in QueuedClosed(urcs) :
                /\ ~InList(connections', id)
                /\ ClosesWritten(wlog', id) = IF InList(before, id) THEN 1 ELSE 0]_vars

\* socket_open was called with ("closed", 0) queued; ("closed", 1) was read
\* while the drain waited for the OK to AT+QICLOSE=0; both connections have
\* been closed and the queue is empty
C33_Witness ==
  /\ op.name = "socket_open" /\ pc = "open_state"
  /\ loc.urcs = << <<"closed", 0>> >>
  /\ ClosesWritten(wlog, 0) = 1 /\ ClosesWritten(wlog, 1) = 1
  /\ connections = <<2>>
  /\ urcs = <<>>

\* ---- how ids enter the list of open connections ----
\* the connections of conns for which the operation wrote no AT+QICLOSE
KeptOpen(conns, w) ==
  LET Kept(id) == ClosesWritten(w, id) = 0
  IN  SelectSeq(conns, Kept)

\* socket_open has ended with an exception
OpenFailed == last.op.name = "socket_open" /\ last.kind = "raise"

\* C34 (as claimed): a socket_open that ends in an error leaves the list of
\* open connections exactly as it was when it was called.
C34_FailedOpenLeavesSetUnchanged == OpenFailed => last.after = last.before

\* C34 (amended): an id enters the list of open connections only as the return
\* value of socket_open, appended at its end; a socket_open that ends in an
\* error adds no id, and leaves the list as it was at the call except for the
\* ids its drain of the queue closed with AT+QICLOSE.
C34_IdEntersOnlyByOpen ==
  /\ OpenFailed => last.after = KeptOpen(last.before, last.wlog)
  /\ (last.op.name = "socket_open" /\ last.kind = "int") =>
       last.after = Append(KeptOpen(last.before, last.wlog), last.val)
  /\ (last.op.name # "socket_open" /\ last.kind # "none") =>
       Range(last.after) \subseteq Range(last.before)
  /\ pc # "idle" => Range(connections) \subseteq Range(loc.before)

\* socket_open has raised for a nonzero code in +QIOPEN: <id>,<code> with three
\* connections open, which are still the list
C34_Witness ==
  /\ OpenFailed
  /\ last.exc = "LTEModuleError: Failed to open socket. error"
  /\ Len(last.before) = 3
  /\ last.after = last.before

\* ---- shape of the list of open connections ----
\* C35: at every point of every sequence of socket_open, socket_send,
\* socket_receive, socket_close (and the drains they start) the list of open
\* connections holds no id twice and only ids of 0..11, hence at most 12
\* entries.
C35_OpenSetWellFormed ==
  /\ \A i, j \in 1..Len(connections) : connections[i] = connections[j] => i = j
  /\ \A i \in 1..Len(connections) :
       0 <= connections[i] /\ connections[i] < MAX_CONNECT_ID
  /\ Len(connections) <= MAX_CONNECT_ID

\* socket_close(0) and then socket_open, which returned the freed id 0
C35_Witness ==
  /\ Opened(0) /\ last.prevclosed = 0
  /\ connections = <<1, 2, 0>>

\* socket_open has raised with all 12 ids in the list
C35_WitnessFull ==
  /\ OpenFailed
  /\ last.exc = "LTEModuleError: No connection resources available."
  /\ Len(connections) = MAX_CONNECT_ID

\* ---- the lines of execute_command in its buffer (checked under SpecExecBuffer) ----
\* the ranges <<index, length>> follow one another from 0 on, inside a buffer
\* of cap bytes
Consecutive(responses, cap) ==
  /\ \A i \in 1..Len(responses) :
       /\ responses[i][2] >= 1
       /\ responses[i][1] + responses[i][2] <= cap
  /\ responses # <<>> => responses[1][1] = 0
  /\ \A i \in 1..(Len(responses) - 1) :
       responses[i + 1][1] = responses[i][1] + responses[i][2]

\* C36: the lines execute_command has collected lie one after the other in the
\* buffer without overlap, and when they reach the end of the buffer the call
\* does not end with an IndexError.
C36_LinesDisjointNoIndexError ==
  /\ Consecutive(wt.responses, f_cap)
  /\ f_pc # "raise"

\* the first half alone: the ranges are consecutive and inside the buffer
C36_LinesConsecutive == Consecutive(wt.responses, f_cap)

\* the lines read so far fill the buffer and the next line has raised
\* IndexError at its first byte
C36_RaisesWhenBufferFull ==
  /\ pc = "execute_command"
  /\ wt.responses # <<>>
  /\ f_off = f_cap
  /\ f_pc = "raise"

\* ---- the network driver (checked under SpecDriver) ----
\* C37: after every step of active, connect and disconnect the interface is
\* connected only if it is active; a connect that raises RuntimeError found the
\* interface inactive and changes neither flag; a power-on that did not return
\* True leaves the interface inactive; and when the interface goes inactive it
\* is not connected.
C37_ConnectedOnlyIfActive ==
  [][/\ is_connected' => active'
     /\ (d_pc = "idle" /\ d_pc' = "idle" /\ d_res' = "RuntimeError") =>
          ~active /\ ~active' /\ is_connected' = is_connected
     /\ (d_pc = "active" /\ d_pc' = "idle" /\ ~ReturnedTrue) => ~active'
     /\ (active /\ ~active') => ~is_connected']_vars

\* the interface was switched on and connected, and active(False) has cleared
\* both flags
C37_Witness ==
  /\ d_pc = "idle" /\ d_res = "True"
  /\ ~active /\ ~is_connected
  /\ last.op.name = "activate" /\ ReturnedTrue

\* connect on the inactive interface has raised RuntimeError
C37_WitnessInactiveConnect ==
  /\ d_res = "RuntimeError" /\ ~active /\ ~is_connected /\ nops = 0

\* the power-on failed and the interface is inactive
C37_WitnessFailedPowerOn ==
  /\ d_pc = "idle" /\ d_res = "False" /\ ~active
  /\ last.op.name = "turn_on_or_reset" /\ last.kind = "bool" /\ last.val = 0

====
